---- MODULE Spec2Model ----
(***************************************************************************)
(* Ingestion / normalization / reconciliation pipeline of the dark-web     *)
(* leak finder: the HIBP breach client, the Shodan host client, and the    *)
(* two Django views (scan_identity, scan_target) that upsert their results *)
(* into the BreachHit and ShodanFinding tables.                            *)
(*                                                                         *)
(* Python strings are modelled as sequences of one-character strings, so   *)
(* that strip(), slicing and formatting are computed, not assumed.         *)
(***************************************************************************)
EXTENDS Integers, Sequences, FiniteSets, TLC

VARIABLES
    identities,   \* pks of the EmailIdentity rows
    address,      \* the address column of the EmailIdentity rows: pk -> address
    hits,         \* the BreachHit table: a sequence of rows in insertion order
    findings,     \* the ShodanFinding table: a sequence of rows in insertion order
    hibpKey,      \* HIBP_API_KEY is set in the environment
    shodanKey,    \* SHODAN_API_KEY is set in settings / environment
    nreq,         \* number of requests served so far (also the clock of timezone.now())
    last,         \* what the last request did (history, for stating the properties)
    cache,        \* django.core.cache: the live and the expired entries
    clock,        \* time.time(), in seconds
    conf,         \* settings.THREATMAP
    inflight      \* the requests that are between two of their statements, with their locals

vars == <<identities, address, hits, findings, hibpKey, shodanKey, nreq, last, cache, clock,
          conf, inflight>>

\* the state of the threat map: the cache, the time, settings.THREATMAP
threatVars == <<cache, clock, conf>>

----------------------------------------------------------------------------
(* Bounds *)

MaxScans == 2    \* requests served in one behaviour
MaxBatch == 2    \* records in one upstream breach list
MaxRetries == 3  \* largest retries argument given to fetch_host
MaxPrimaryUrls == 2  \* longest CISA_KEV_JSONS list (the shipped list has one URL)
MaxAdds == 3     \* add_identity requests in one behaviour
MaxCalls == 3    \* get_points calls in one behaviour
MaxSeconds == 2  \* single seconds the clock of the threat map advances

----------------------------------------------------------------------------
(* Python values *)

\* Python's None (also: a key missing from a dict, as dict.get returns None)
None == <<"None">>

Truthy(v) == v # None /\ v # <<>>

\* a or b
PyOr(a, b) == IF Truthy(a) THEN a ELSE b

Whitespace == {" ", "\t", "\n"}

RECURSIVE LStrip(_)
LStrip(s) ==
    IF s # <<>> /\ Head(s) \in Whitespace THEN LStrip(Tail(s)) ELSE s

RECURSIVE RStrip(_)
RStrip(s) ==
    IF s # <<>> /\ s[Len(s)] \in Whitespace
    THEN RStrip(SubSeq(s, 1, Len(s) - 1))
    ELSE s

\* str.strip()
Strip(s) == RStrip(LStrip(s))

\* s[:n]
Prefix(s, n) == IF Len(s) <= n THEN s ELSE SubSeq(s, 1, n)

DigitChars == <<"0", "1", "2", "3", "4", "5", "6", "7", "8", "9">>

IsDigit(c) == \E i \in 1..10 : DigitChars[i] = c

DigitVal(c) == (CHOOSE i \in 1..10 : DigitChars[i] = c) - 1

\* str(n) for a natural number n
RECURSIVE IntToStr(_)
IntToStr(n) ==
    IF n < 10 THEN <<DigitChars[n + 1]>>
    ELSE IntToStr(n \div 10) \o <<DigitChars[(n % 10) + 1]>>


\* the lower-case letter of each upper-case letter
LowerOf ==
    ("A" :> "a") @@ ("B" :> "b") @@ ("C" :> "c") @@ ("D" :> "d") @@ ("E" :> "e")
        @@ ("F" :> "f") @@ ("G" :> "g") @@ ("H" :> "h") @@ ("I" :> "i") @@ ("J" :> "j")
        @@ ("K" :> "k") @@ ("L" :> "l") @@ ("M" :> "m") @@ ("N" :> "n") @@ ("O" :> "o")
        @@ ("P" :> "p") @@ ("Q" :> "q") @@ ("R" :> "r") @@ ("S" :> "s") @@ ("T" :> "t")
        @@ ("U" :> "u") @@ ("V" :> "v") @@ ("W" :> "w") @@ ("X" :> "x") @@ ("Y" :> "y")
        @@ ("Z" :> "z")

LowerChar(c) == IF c \in DOMAIN LowerOf THEN LowerOf[c] ELSE c

\* str.lower()
Lower(s) == [i \in 1..Len(s) |-> LowerChar(s[i])]

\* s.startswith(p)
StartsWith(s, p) == Len(s) >= Len(p) /\ SubSeq(s, 1, Len(p)) = p

\* dict.get(k): None when the key is missing
Get(d, k) == IF k \in DOMAIN d THEN d[k] ELSE None

\* isinstance(x, dict), for the elements of a decoded JSON list
IsDict(x) == "nondict" \notin DOMAIN x

----------------------------------------------------------------------------
(* Date normalization *)

\* re.compile(r"^\d{4}-\d{2}-\d{2}$").match(s)
DATE_RE(s) ==
    /\ Len(s) = 10
    /\ \A i \in {1, 2, 3, 4, 6, 7, 9, 10} : IsDigit(s[i])
    /\ s[5] = "-"
    /\ s[8] = "-"

\* Variant of _date_yyyy_mm_dd without the format check.
date_yyyy_mm_dd_NoFormatCheck(value) ==
    IF ~Truthy(value) THEN None
    ELSE LET s0 == Strip(value)
         IN  IF Len(s0) >= 10 THEN SubSeq(s0, 1, 10) ELSE s0

\* hibp._date_yyyy_mm_dd
date_yyyy_mm_dd(value) ==
    IF ~Truthy(value) THEN None
    ELSE LET s0 == Strip(value)
             s  == IF Len(s0) >= 10 THEN SubSeq(s0, 1, 10) ELSE s0
         IN  IF DATE_RE(s) THEN s ELSE None

\* views._safe_date
safe_date(v) ==
    IF ~Truthy(v) THEN None
    ELSE LET s0 == Strip(v)
         IN  IF s0 = <<>> THEN None
             ELSE LET s == Prefix(s0, 10)
                  IN  IF Len(s) = 10 /\ s[5] = "-" /\ s[8] = "-" THEN s ELSE None

Num2(s, i) == 10 * DigitVal(s[i]) + DigitVal(s[i + 1])

Num4(s, i) == 100 * Num2(s, i) + Num2(s, i + 2)

IsLeap(y) == (y % 4 = 0 /\ y % 100 # 0) \/ y % 400 = 0

DaysIn(y, m) ==
    IF m = 2 THEN (IF IsLeap(y) THEN 29 ELSE 28)
    ELSE IF m \in {4, 6, 9, 11} THEN 30 ELSE 31

\* What models.DateField accepts on save: None, or an ISO date string that
\* names a day of the calendar (anything else raises ValidationError).
DateFieldAccepts(v) ==
    \/ v = None
    \/ /\ DATE_RE(v)
       /\ Num4(v, 1) >= 1
       /\ Num2(v, 6) \in 1..12
       /\ Num2(v, 9) \in 1..DaysIn(Num4(v, 1), Num2(v, 6))

----------------------------------------------------------------------------
(* HIBP client: breaches/services/hibp.py *)

\* Response.raise_for_status() raises HTTPError for 4xx and 5xx
RaisesForStatus(status) == 400 <= status /\ status < 600

APPLICATION_JSON ==
    <<"a", "p", "p", "l", "i", "c", "a", "t", "i", "o", "n", "/", "j", "s", "o", "n">>

\* A flag value is one of the strings "True", "False", "None" (JSON true,
\* false, null) or "1" (a JSON number).  bool(v):
PyBool(v) == IF v \in {"False", "None", "0"} THEN "False" ELSE "True"

\* d.get(k, default) for a key that holds a flag value
GetFlag(d, k, default) == IF k \in DOMAIN d THEN d[k] ELSE default

\* the eight flags, by the name of the BreachHit field
FlagNames ==
    {"is_verified", "is_sensitive", "is_fabricated", "is_spam_list",
     "is_retired", "is_malware", "is_stealer_log", "is_subscription_free"}

\* the key _normalize_breach reads each flag from
NormalizedFrom ==
    [is_verified          |-> "IsVerified",
     is_sensitive         |-> "IsSensitive",
     is_fabricated        |-> "IsFabricricated",
     is_spam_list         |-> "IsSpamList",
     is_retired           |-> "IsRetired",
     is_malware           |-> "IsMalware",
     is_stealer_log       |-> "IsStealerLog",
     is_subscription_free |-> "IsSubscriptionFree"]

\* the flags of the normalized dict: bool(b.get(key))
normalized_flags(b) ==
    [f \in FlagNames |-> PyBool(GetFlag(b, NormalizedFrom[f], "None"))]

\* Variant of normalize_breach that names a record by its Title or Domain
\* when Name is blank, instead of dropping it.
normalize_breach_TitleFallback(b) ==
    LET name   == PyOr(Strip(PyOr(Get(b, "Name"), <<>>)),
                  PyOr(Strip(PyOr(Get(b, "Title"), <<>>)),
                       Strip(PyOr(Get(b, "Domain"), <<>>))))
        title  == PyOr(Strip(PyOr(Get(b, "Title"), <<>>)), name)
        domain == Strip(PyOr(Get(b, "Domain"), <<>>))
    IN  IF name = <<>> THEN <<>>
        ELSE <<[breach_name |-> name,
                title       |-> title,
                domain      |-> domain,
                occurred_on |-> date_yyyy_mm_dd(Get(b, "BreachDate")),
                added_on    |-> date_yyyy_mm_dd(Get(b, "AddedDate")),
                modified_on |-> date_yyyy_mm_dd(Get(b, "ModifiedDate"))]
                  @@ normalized_flags(b)>>

\* HibpClient._normalize_breach.  The Optional[dict] it returns is a sequence
\* of at most one dict: <<>> (None) when Name is missing or blank.
normalize_breach(b) ==
    LET name   == Strip(PyOr(Get(b, "Name"), <<>>))
        title  == PyOr(Strip(PyOr(Get(b, "Title"), <<>>)), name)
        domain == Strip(PyOr(Get(b, "Domain"), <<>>))
        breach_date == date_yyyy_mm_dd(Get(b, "BreachDate"))
        added_on    == date_yyyy_mm_dd(Get(b, "AddedDate"))
        modified_on == date_yyyy_mm_dd(Get(b, "ModifiedDate"))
    IN  IF name = <<>> THEN <<>>
        ELSE <<[breach_name |-> name,
                title       |-> title,
                domain      |-> domain,
                occurred_on |-> breach_date,
                added_on    |-> added_on,
                modified_on |-> modified_on]
                  @@ normalized_flags(b)>>

\* the loop of breaches_for_account over the decoded JSON list
RECURSIVE NormalizeAll(_)
NormalizeAll(data) ==
    IF data = <<>> THEN <<>>
    ELSE LET raw == Head(data)
         IN  (IF IsDict(raw) THEN normalize_breach(raw) ELSE <<>>)
                 \o NormalizeAll(Tail(data))

\* Variant of breaches_for_account without the demo-mode return: the request
\* is sent whether or not a key is configured.
breaches_for_account_NoDemoMode(key, resp) ==
    LET R(kind, items, requests) ==
            [kind |-> kind, items |-> items, requests |-> requests,
             slept |-> requests > 0]
    IN  IF resp.status = 0 THEN R("RequestException", <<>>, 1)
        ELSE IF resp.status = 404 THEN R("ok", <<>>, 1)
        ELSE IF resp.status = 401 THEN R("HibpAuthError", <<>>, 1)
        ELSE IF resp.status = 429 THEN R("HibpRateLimitError", <<>>, 1)
        ELSE IF RaisesForStatus(resp.status) THEN R("HTTPError", <<>>, 1)
        ELSE IF ~StartsWith(Lower(resp.ct), APPLICATION_JSON) THEN R("ok", <<>>, 1)
        ELSE IF resp.body.kind = "invalid" THEN R("JSONDecodeError", <<>>, 1)
        ELSE IF resp.body.kind # "list" THEN R("ok", <<>>, 1)
        ELSE R("ok", NormalizeAll(resp.body.items), 1)

\* Variant of breaches_for_account without the 429 branch: the status falls
\* through to raise_for_status.
breaches_for_account_No429(key, resp) ==
    LET R(kind, items, requests) ==
            [kind |-> kind, items |-> items, requests |-> requests,
             slept |-> requests > 0]
    IN  IF ~key THEN R("ok", <<>>, 0)
        ELSE IF resp.status = 0 THEN R("RequestException", <<>>, 1)
        ELSE IF resp.status = 404 THEN R("ok", <<>>, 1)
        ELSE IF resp.status = 401 THEN R("HibpAuthError", <<>>, 1)
        ELSE IF RaisesForStatus(resp.status) THEN R("HTTPError", <<>>, 1)
        ELSE IF ~StartsWith(Lower(resp.ct), APPLICATION_JSON) THEN R("ok", <<>>, 1)
        ELSE IF resp.body.kind = "invalid" THEN R("JSONDecodeError", <<>>, 1)
        ELSE IF resp.body.kind # "list" THEN R("ok", <<>>, 1)
        ELSE R("ok", NormalizeAll(resp.body.items), 1)

\* What one call of breaches_for_account does.  key: HIBP_API_KEY is set;
\* resp: the answer the upstream gives if it is asked (status 0: the
\* transport fails and requests raises).
\*   kind     "ok" (a list is returned) or the exception raised
\*   items    the returned list
\*   requests number of HTTP requests sent
\*   slept    the pre-request delay was taken
HibpResult(kind, items, requests) ==
    [kind |-> kind, items |-> items, requests |-> requests, slept |-> requests > 0]

breaches_for_account(key, resp) ==
    IF ~key THEN HibpResult("ok", <<>>, 0)
    ELSE IF resp.status = 0 THEN HibpResult("RequestException", <<>>, 1)
    ELSE IF resp.status = 404 THEN HibpResult("ok", <<>>, 1)
    ELSE IF resp.status = 401 THEN HibpResult("HibpAuthError", <<>>, 1)
    ELSE IF resp.status = 429 THEN HibpResult("HibpRateLimitError", <<>>, 1)
    ELSE IF RaisesForStatus(resp.status) THEN HibpResult("HTTPError", <<>>, 1)
    ELSE IF ~StartsWith(Lower(resp.ct), APPLICATION_JSON) THEN HibpResult("ok", <<>>, 1)
    ELSE IF resp.body.kind = "invalid" THEN HibpResult("JSONDecodeError", <<>>, 1)
    ELSE IF resp.body.kind # "list" THEN HibpResult("ok", <<>>, 1)
    ELSE HibpResult("ok", NormalizeAll(resp.body.items), 1)

----------------------------------------------------------------------------
(* scan_identity: breaches/views.py *)

UNKNOWN == <<"U", "n", "k", "n", "o", "w", "n">>

UNKNOWN_DASH == <<"u", "n", "k", "n", "o", "w", "n", "-">>

NA == <<"n", "a">>

\* f"unknown-{breach_dt or 'na'}-{added_dt or 'na'}"
SyntheticName(breach_dt, added_dt) ==
    UNKNOWN_DASH \o PyOr(breach_dt, NA) \o <<"-">> \o PyOr(added_dt, NA)

\* the raw HIBP key scan_identity falls back to for each flag
RawFlagKey ==
    [is_verified          |-> "IsVerified",
     is_sensitive         |-> "IsSensitive",
     is_fabricated        |-> "IsFabricated",
     is_spam_list         |-> "IsSpamList",
     is_retired           |-> "IsRetired",
     is_malware           |-> "IsMalware",
     is_stealer_log       |-> "IsStealerLog",
     is_subscription_free |-> "IsSubscriptionFree"]

\* item.get(f, item.get(RawFlagKey[f], False))
ItemFlag(item, f) == GetFlag(item, f, GetFlag(item, RawFlagKey[f], "False"))

\* the eight flags of the defaults dict: bool(item.get(..., item.get(..., False)))
item_flags(item) == [f \in FlagNames |-> PyBool(ItemFlag(item, f))]

\* Variant of the resolution that prefers the domain to the title.
ResolveItem_DomainFirst(item) ==
    LET raw_name  == Strip(PyOr(PyOr(Get(item, "breach_name"), Get(item, "Name")), <<>>))
        title     == Strip(PyOr(PyOr(Get(item, "title"), Get(item, "Title")), <<>>))
        domain    == Strip(PyOr(PyOr(Get(item, "domain"), Get(item, "Domain")), <<>>))
        breach_dt == safe_date(PyOr(Get(item, "occurred_on"), Get(item, "BreachDate")))
        added_dt  == safe_date(PyOr(Get(item, "added_on"), Get(item, "AddedDate")))
        mod_dt    == safe_date(PyOr(Get(item, "modified_on"), Get(item, "ModifiedDate")))
    IN  [raw_name  |-> raw_name,
         title     |-> title,
         domain    |-> domain,
         breach_dt |-> breach_dt,
         added_dt  |-> added_dt,
         mod_dt    |-> mod_dt,
         flags     |-> item_flags(item),
         name      |-> PyOr(raw_name,
                       PyOr(domain,
                       PyOr(title,
                       PyOr(SyntheticName(breach_dt, added_dt), UNKNOWN))))]

\* the fields scan_identity reads from one item and the name it resolves
ResolveItem(item) ==
    LET raw_name  == Strip(PyOr(PyOr(Get(item, "breach_name"), Get(item, "Name")), <<>>))
        title     == Strip(PyOr(PyOr(Get(item, "title"), Get(item, "Title")), <<>>))
        domain    == Strip(PyOr(PyOr(Get(item, "domain"), Get(item, "Domain")), <<>>))
        breach_dt == safe_date(PyOr(Get(item, "occurred_on"), Get(item, "BreachDate")))
        added_dt  == safe_date(PyOr(Get(item, "added_on"), Get(item, "AddedDate")))
        mod_dt    == safe_date(PyOr(Get(item, "modified_on"), Get(item, "ModifiedDate")))
    IN  [raw_name  |-> raw_name,
         title     |-> title,
         domain    |-> domain,
         breach_dt |-> breach_dt,
         added_dt  |-> added_dt,
         mod_dt    |-> mod_dt,
         flags     |-> item_flags(item),
         name      |-> PyOr(raw_name,
                       PyOr(title,
                       PyOr(domain,
                       PyOr(SyntheticName(breach_dt, added_dt), UNKNOWN))))]

\* f"{base} ({n})"
Candidate(base, n) == base \o <<" ", "(">> \o IntToStr(n) \o <<")">>

\* BreachHit.objects.filter(identity=identity, breach_name=name).exists()
HitExists(table, identity, name) ==
    \E i \in 1..Len(table) :
        table[i].identity = identity /\ table[i].breach_name = name

\* Variant of the while loop that looks only at seen_names, not at the table.
RECURSIVE FirstFree_IgnoresStore(_, _, _, _, _)
FirstFree_IgnoresStore(table, identity, base, seen_names, n) ==
    IF Candidate(base, n) \in seen_names
    THEN FirstFree_IgnoresStore(table, identity, base, seen_names, n + 1)
    ELSE n

\* the while loop: the first n >= start whose candidate is free
RECURSIVE FirstFree(_, _, _, _, _)
FirstFree(table, identity, base, seen_names, n) ==
    IF HitExists(table, identity, Candidate(base, n)) \/ Candidate(base, n) \in seen_names
    THEN FirstFree(table, identity, base, seen_names, n + 1)
    ELSE n

\* Variant of the name assignment that also suffixes a name that is stored.
AssignName_SuffixOnStore(table, identity, name, seen_names) ==
    IF name \in seen_names \/ HitExists(table, identity, name)
    THEN Candidate(name, FirstFree(table, identity, name, seen_names, 2))
    ELSE name

\* Variant of the name assignment that keeps a name already used in the batch.
AssignName_KeepSeen(table, identity, name, seen_names) == name

\* the name a record is written under
AssignName(table, identity, name, seen_names) ==
    IF name \in seen_names
    THEN Candidate(name, FirstFree(table, identity, name, seen_names, 2))
    ELSE name

\* the defaults dict of one item
Defaults(r) ==
    [domain      |-> r.domain,
     occurred_on |-> r.breach_dt,
     title       |-> PyOr(r.title, PyOr(r.raw_name, r.domain)),
     added_on    |-> r.added_dt,
     modified_on |-> r.mod_dt]
        @@ r.flags

HitRow(identity, name, d) ==
    [identity    |-> identity,
     breach_name |-> name,
     domain      |-> d.domain,
     occurred_on |-> d.occurred_on,
     title       |-> d.title,
     added_on    |-> d.added_on,
     modified_on |-> d.modified_on]
        @@ [f \in FlagNames |-> d[f]]

\* Variant of the upsert that inserts without looking the key up.
update_or_create_hit_AlwaysInsert(table, identity, name, d) ==
    IF ~(\A k \in {"occurred_on", "added_on", "modified_on"} : DateFieldAccepts(d[k]))
    THEN [table |-> table, created |-> FALSE, raised |-> "ValidationError"]
    ELSE [table |-> Append(table, HitRow(identity, name, d)),
          created |-> TRUE, raised |-> ""]

\* Variant of the upsert that looks the row up by breach_name alone.
update_or_create_hit_ByNameOnly(table, identity, name, d) ==
    LET found == {i \in 1..Len(table) : table[i].breach_name = name}
    IN  IF Cardinality(found) > 1
        THEN [table |-> table, created |-> FALSE, raised |-> "MultipleObjectsReturned"]
        ELSE IF ~(\A k \in {"occurred_on", "added_on", "modified_on"} : DateFieldAccepts(d[k]))
        THEN [table |-> table, created |-> FALSE, raised |-> "ValidationError"]
        ELSE IF found = {}
        THEN [table |-> Append(table, HitRow(identity, name, d)),
              created |-> TRUE, raised |-> ""]
        ELSE [table |-> [i \in 1..Len(table) |->
                            IF i \in found THEN HitRow(table[i].identity, name, d)
                            ELSE table[i]],
              created |-> FALSE, raised |-> ""]

\* BreachHit.objects.update_or_create(identity=, breach_name=, defaults=)
\*   raised: "" or the exception (the table is then unchanged)
update_or_create_hit(table, identity, name, d) ==
    LET found == {i \in 1..Len(table) :
                    table[i].identity = identity /\ table[i].breach_name = name}
        row   == HitRow(identity, name, d)
    IN  IF Cardinality(found) > 1
        THEN [table |-> table, created |-> FALSE, raised |-> "MultipleObjectsReturned"]
        ELSE IF ~(\A k \in {"occurred_on", "added_on", "modified_on"} : DateFieldAccepts(d[k]))
        THEN [table |-> table, created |-> FALSE, raised |-> "ValidationError"]
        ELSE IF found = {}
        THEN [table |-> Append(table, row), created |-> TRUE, raised |-> ""]
        ELSE [table |-> [i \in 1..Len(table) |-> IF i \in found THEN row ELSE table[i]],
              created |-> FALSE, raised |-> ""]

\* What the loop of scan_identity carries from one record to the next: the
\* table, the request-local seen_names, the two counters and, per record
\* processed, what was decided for it:
\*   base     the resolved name
\*   name     the name it was written under
\*   inBatch  base was in seen_names when the record was reached
\*   inStore  a row (identity, base) was stored when the record was reached
\*   created  update_or_create inserted a row
\* raised is "" or the exception that ended the loop.
LoopStart(table) ==
    [table |-> table, seen_names |-> {}, created |-> 0, updated |-> 0,
     trace |-> <<>>, raised |-> ""]

\* F(v), with v evaluated once
Bind(v, F(_)) == CHOOSE o \in {F(x) : x \in {v}} : TRUE

\* one pass of the loop body, for the item resolved as r
ReconcileResolved(identity, r, acc) ==
    Bind(AssignName(acc.table, identity, r.name, acc.seen_names), LAMBDA name :
    Bind(update_or_create_hit(acc.table, identity, name, Defaults(r)), LAMBDA uoc :
        IF uoc.raised # ""
        THEN [acc EXCEPT !.raised = uoc.raised,
                         !.seen_names = acc.seen_names \cup {name}]
        ELSE [table      |-> uoc.table,
              seen_names |-> acc.seen_names \cup {name},
              created    |-> acc.created + (IF uoc.created THEN 1 ELSE 0),
              updated    |-> acc.updated + (IF uoc.created THEN 0 ELSE 1),
              trace      |-> Append(acc.trace,
                               [base    |-> r.name,
                                name    |-> name,
                                inBatch |-> r.name \in acc.seen_names,
                                inStore |-> HitExists(acc.table, identity, r.name),
                                created |-> uoc.created]),
              raised     |-> ""]))

ReconcileItem(identity, item, acc) ==
    Bind(ResolveItem(item), LAMBDA r : ReconcileResolved(identity, r, acc))

\* the for loop of scan_identity from item k on; an exception ends it
RECURSIVE ReconcileFrom(_, _, _, _)
ReconcileFrom(identity, results, k, acc) ==
    IF k > Len(results) \/ acc.raised # "" THEN acc
    ELSE Bind(ReconcileItem(identity, results[k], acc),
              LAMBDA nxt : ReconcileFrom(identity, results, k + 1, nxt))

\* Variant of the reconciliation that first drops the identity's stored rows,
\* so that the store mirrors the batch.
Reconcile_ReplaceRows(table, identity, results) ==
    LET Other(row) == row.identity # identity
    IN  ReconcileFrom(identity, results, 1, LoopStart(SelectSeq(table, Other)))

\* the reconciliation of one batch against the stored rows
Reconcile(table, identity, results) ==
    ReconcileFrom(identity, results, 1, LoopStart(table))

\* the except clauses of scan_identity: exception -> level of the user message
ScanIdentityLevel(kind) ==
    IF kind = "ok" THEN "success"
    ELSE IF kind = "HibpAuthError" THEN "error"
    ELSE IF kind = "HibpRateLimitError" THEN "warning"
    ELSE "error"

\* What the response is recorded as when the client never asked for it
NotAsked == [status |-> -1]

\* the record of a scan_identity request
ScanIdentityRecord(pk, resp, res, out, rec) ==
    [view     |-> "scan_identity",
     pk       |-> pk,
     resp     |-> IF res.requests > 0 THEN resp ELSE NotAsked,
     requests |-> res.requests,
     slept    |-> res.slept,
     outcome  |-> out,
     level    |-> ScanIdentityLevel(out),
     created  |-> rec.created,
     updated  |-> rec.updated,
     results  |-> res.items,
     trace    |-> rec.trace]

\* POST scan_identity(pk) for a stored identity, the upstream answering resp
\* if it is asked
ScanIdentityWith(pk, resp) ==
    \E res \in {breaches_for_account(hibpKey, resp)} :
        IF res.kind # "ok"
        THEN /\ hits' = hits
             /\ last' = ScanIdentityRecord(pk, resp, res, res.kind, LoopStart(hits))
        ELSE \E rec \in {Reconcile(hits, pk, res.items)} :
             /\ hits' = rec.table
             /\ last' = ScanIdentityRecord(pk, resp, res,
                            IF rec.raised # "" THEN rec.raised ELSE "ok", rec)

\* POST scan_identity(pk) for a pk that is not stored: get_object_or_404
ScanIdentityNotFound(pk) ==
    /\ hits' = hits
    /\ last' = [view |-> "scan_identity", pk |-> pk, resp |-> NotAsked,
                requests |-> 0, slept |-> FALSE, outcome |-> "Http404",
                level |-> "", created |-> 0, updated |-> 0,
                results |-> <<>>, trace |-> <<>>]

----------------------------------------------------------------------------
(* Shodan client: breaches/services/shodan_client.py *)

\* the retries parameter's default
DEFAULT_RETRIES == 2

\* s.split(sep) for a one-character separator
RECURSIVE SplitFrom(_, _, _, _)
SplitFrom(s, sep, i, cur) ==
    IF i > Len(s) THEN <<cur>>
    ELSE IF s[i] = sep THEN <<cur>> \o SplitFrom(s, sep, i + 1, <<>>)
    ELSE SplitFrom(s, sep, i + 1, Append(cur, s[i]))

Split(s, sep) == SplitFrom(s, sep, 1, <<>>)

RECURSIVE StrToInt(_)
StrToInt(s) ==
    IF s = <<>> THEN 0
    ELSE 10 * StrToInt(SubSeq(s, 1, Len(s) - 1)) + DigitVal(s[Len(s)])

\* one octet of a dotted quad: 1 to 3 digits, no leading zero, at most 255
IsOctet(p) ==
    /\ Len(p) \in 1..3
    /\ \A i \in 1..Len(p) : IsDigit(p[i])
    /\ (Len(p) > 1 => p[1] # "0")
    /\ StrToInt(p) <= 255

\* _is_ip: ipaddress.ip_address(value) accepts it (IPv4 literals)
is_ip(value) ==
    LET parts == Split(value, ".")
    IN  Len(parts) = 4 /\ \A i \in 1..4 : IsOctet(parts[i])

\* socket.gethostbyname: the names the resolver knows (any other: gaierror)
DnsTable(name) ==
    IF name = <<"d", "n", "s", ".", "g", "o", "o", "g", "l", "e">>
    THEN <<"8", ".", "8", ".", "8", ".", "8">>
    ELSE None

\* _resolve_to_ip: the IP, or None when socket.gaierror is raised
resolve_to_ip(target) ==
    IF is_ip(target) THEN target ELSE DnsTable(target)

FetchResult(kind, data, requests, sleeps) ==
    [kind |-> kind, data |-> data, requests |-> requests, sleeps |-> sleeps]

\* what fetch_host returns for a decoded payload: ip_str is added from ip
WithIpStr(data) ==
    IF "ip_str" \notin DOMAIN data /\ "ip" \in DOMAIN data
    THEN [k \in DOMAIN data \cup {"ip_str"} |->
             IF k = "ip_str" THEN IntToStr(data.ip) ELSE data[k]]
    ELSE data

\* Variant of the fetch_host loop without the 404 branch: the status falls
\* through to raise_for_status and is handled like any other HTTP error.
RECURSIVE FetchFrom_No404(_, _, _, _)
FetchFrom_No404(script, attempt, retries, sleeps) ==
    IF attempt > retries THEN FetchResult("none", <<>>, attempt, sleeps)
    ELSE IF attempt + 1 > Len(script) THEN FetchResult("incomplete", <<>>, attempt, sleeps)
    ELSE LET resp == script[attempt + 1]
         IN  IF resp.status = 0
             THEN IF attempt < retries
                  THEN FetchFrom_No404(script, attempt + 1, retries, Append(sleeps, 1))
                  ELSE FetchResult("ShodanError", <<>>, attempt + 1, sleeps)
             ELSE IF RaisesForStatus(resp.status)
             THEN IF resp.status = 429 /\ attempt < retries
                  THEN FetchFrom_No404(script, attempt + 1, retries,
                                       Append(sleeps, 2 ^ attempt))
                  ELSE FetchResult("ShodanError", <<>>, attempt + 1, sleeps)
             ELSE FetchResult("data", WithIpStr(resp.data), attempt + 1, sleeps)

\* The while loop of fetch_host from the given attempt on.  script[i] is the
\* upstream's answer to the i-th request (status 0: the transport fails);
\* sleeps lists the delays taken so far.  A script too short to finish the
\* call gives kind "incomplete".
RECURSIVE FetchFrom(_, _, _, _)
FetchFrom(script, attempt, retries, sleeps) ==
    IF attempt > retries THEN FetchResult("none", <<>>, attempt, sleeps)
    ELSE IF attempt + 1 > Len(script) THEN FetchResult("incomplete", <<>>, attempt, sleeps)
    ELSE LET resp == script[attempt + 1]
         IN  IF resp.status = 0
             THEN IF attempt < retries
                  THEN FetchFrom(script, attempt + 1, retries, Append(sleeps, 1))
                  ELSE FetchResult("ShodanError", <<>>, attempt + 1, sleeps)
             ELSE IF resp.status = 404
             THEN FetchResult("none", <<>>, attempt + 1, sleeps)
             ELSE IF RaisesForStatus(resp.status)
             THEN IF resp.status = 429 /\ attempt < retries
                  THEN FetchFrom(script, attempt + 1, retries, Append(sleeps, 2 ^ attempt))
                  ELSE FetchResult("ShodanError", <<>>, attempt + 1, sleeps)
             ELSE FetchResult("data", WithIpStr(resp.data), attempt + 1, sleeps)

\* fetch_host(target, retries=retries), key: SHODAN_API_KEY is configured
fetch_host(key, target, script, retries) ==
    IF ~key THEN FetchResult("ShodanError", <<>>, 0, <<>>)
    ELSE IF resolve_to_ip(target) = None THEN FetchResult("ShodanError", <<>>, 0, <<>>)
    ELSE FetchFrom(script, 0, retries, <<>>)

----------------------------------------------------------------------------
(* scan_target: breaches/views.py *)

\* sorted(set(ports))
RECURSIVE SortedSeq(_)
SortedSeq(S) ==
    IF S = {} THEN <<>>
    ELSE LET m == CHOOSE x \in S : \A y \in S : x <= y
         IN  <<m>> \o SortedSeq(S \ {m})

Range(q) == {q[i] : i \in 1..Len(q)}

\* timezone.now() while serving request number n + 1
Now(n) == <<"n", "o", "w", "+">> \o IntToStr(n)

\* data.get("ip_str") or data.get("ip")
TargetIp(data) ==
    IF Truthy(Get(data, "ip_str")) THEN data.ip_str
    ELSE IF "ip" \in DOMAIN data /\ data.ip # 0 THEN IntToStr(data.ip)
    ELSE None

\* data.get(k) or [], for a key that holds a list
GetList(data, k) == IF k \in DOMAIN data THEN data[k] ELSE <<>>

FindingDefaults(data, now) ==
    [hostnames |-> GetList(data, "hostnames"),
     ports     |-> SortedSeq(Range(GetList(data, "ports"))),
     org       |-> PyOr(Get(data, "org"), <<>>),
     os        |-> PyOr(Get(data, "os"), <<>>),
     raw       |-> data,
     last_seen |-> PyOr(Get(data, "last_update"), now)]

FindingRow(ip, d, created_on) ==
    [ip |-> ip, hostnames |-> d.hostnames, ports |-> d.ports, org |-> d.org,
     os |-> d.os, raw |-> d.raw, last_seen |-> d.last_seen,
     created_on |-> created_on]

\* Variant of the upsert that inserts without looking the IP up.
update_or_create_finding_AlwaysInsert(table, ip, d, now) ==
    [table |-> Append(table, FindingRow(ip, d, now)), created |-> TRUE, raised |-> ""]

\* ShodanFinding.objects.update_or_create(ip=ip, defaults=d)
update_or_create_finding(table, ip, d, now) ==
    LET found == {i \in 1..Len(table) : table[i].ip = ip}
    IN  IF Cardinality(found) > 1
        THEN [table |-> table, created |-> FALSE, raised |-> "MultipleObjectsReturned"]
        ELSE IF found = {}
        THEN [table |-> Append(table, FindingRow(ip, d, now)),
              created |-> TRUE, raised |-> ""]
        ELSE [table |-> [i \in 1..Len(table) |->
                           IF i \in found THEN FindingRow(ip, d, table[i].created_on)
                           ELSE table[i]],
              created |-> FALSE, raised |-> ""]

\* the record of a scan_target request; old is the row the upsert replaced
\* (a sequence of at most one row)
ScanTargetRecord(target, script, res, outcome, level, ip, old) ==
    [view     |-> "scan_target",
     target   |-> target,
     script   |-> SubSeq(script, 1, res.requests),
     requests |-> res.requests,
     sleeps   |-> res.sleeps,
     fetched  |-> res.kind,
     outcome  |-> outcome,
     level    |-> level,
     ip       |-> ip,
     old      |-> old]

\* POST scan_target with a non-blank target, the upstream answering by script
ScanTargetWith(target, script) ==
    \E res \in {fetch_host(shodanKey, target, script, DEFAULT_RETRIES)} :
        IF res.kind = "ShodanError"
        THEN /\ findings' = findings
             /\ last' = ScanTargetRecord(target, script, res, "ShodanError", "error", None, <<>>)
        ELSE IF res.kind = "none" \/ res.data = <<>>
        THEN /\ findings' = findings
             /\ last' = ScanTargetRecord(target, script, res, "nodata", "info", None, <<>>)
        ELSE IF TargetIp(res.data) = None
        THEN /\ findings' = findings
             /\ last' = ScanTargetRecord(target, script, res, "noip", "error", None, <<>>)
        ELSE \E uoc \in {update_or_create_finding(findings, TargetIp(res.data),
                             FindingDefaults(res.data, Now(nreq)), Now(nreq))} :
             /\ findings' = uoc.table
             /\ last' = IF uoc.raised # ""
                        THEN ScanTargetRecord(target, script, res, uoc.raised, "error",
                                              TargetIp(res.data), <<>>)
                        ELSE ScanTargetRecord(target, script, res, "saved", "success",
                                              TargetIp(res.data),
                                              SelectSeq(findings,
                                                  LAMBDA row : row.ip = TargetIp(res.data)))

\* POST scan_target with a blank target
ScanTargetBlank(target) ==
    /\ findings' = findings
    /\ last' = [view |-> "scan_target", target |-> target, script |-> <<>>,
                requests |-> 0, sleeps |-> <<>>, fetched |-> "", outcome |-> "blank",
                level |-> "error", ip |-> None, old |-> <<>>]

----------------------------------------------------------------------------
(* The threat map: threatmap/conf.py and threatmap/services/fetcher.py *)

CLOUDFLARE == <<"c", "l", "o", "u", "d", "f", "l", "a", "r", "e">>

OTHER_PROVIDER == <<"o", "t", "h", "e", "r">>

DEFAULT_SOURCE == <<"d", "e", "f", "a", "u", "l", "t">>

LAYER3_TARGET == <<"l", "a", "y", "e", "r", "3", "_", "t", "a", "r", "g", "e", "t">>

THREATMAP_PREFIX == <<"t", "h", "r", "e", "a", "t", "m", "a", "p", ":">>

\* conf.DEFAULTS.  A number n is <<n>>; <<>> stands for a value int() rejects.
DEFAULTS ==
    [PROVIDER |-> CLOUDFLARE, CACHE_SECONDS |-> <<600>>, POINT_LIMIT |-> <<15>>,
     AUTO_REFRESH_MS |-> <<0>>]

\* conf_get(name) under the settings block cfg
conf_get(cfg, name) == IF name \in DOMAIN cfg THEN cfg[name] ELSE DEFAULTS[name]

\* the providers registered in PROVIDERS
PROVIDERS == {CLOUDFLARE}

\* _safe_limit(raw_limit, default=50, max_limit=200)
safe_limit(raw_limit) ==
    LET value   == IF raw_limit = <<>> THEN 50 ELSE raw_limit[1]
        atLeast == IF value < 1 THEN 50 ELSE value
    IN  IF atLeast < 200 THEN atLeast ELSE 200

\* _safe_ttl(raw_ttl, default=300)
safe_ttl(raw_ttl) ==
    LET value == IF raw_ttl = <<>> THEN 300 ELSE raw_ttl[1]
    IN  IF value <= 0 THEN 300 ELSE value

\* source or "default"
cache_source(source) == IF Truthy(source) THEN source ELSE DEFAULT_SOURCE

\* Variant of the cache key without the source selector.
cache_key_NoSource(provider_key, source, limit) ==
    THREATMAP_PREFIX \o provider_key \o <<":">> \o IntToStr(limit)

\* f"threatmap:{provider_key}:{cache_source}:{limit}"
cache_key(provider_key, source, limit) ==
    THREATMAP_PREFIX \o provider_key \o <<":">> \o cache_source(source)
        \o <<":">> \o IntToStr(limit)

\* the entries stored under key
EntriesAt(store, key) == {e \in store : e.key = key}

\* cache.get(key) at time now: the value of the entry that has not expired,
\* as a sequence of at most one value (<<>>: None)
cache_get(store, key, now) ==
    LET live == {e \in EntriesAt(store, key) : e.expires > now}
    IN  IF live = {} THEN <<>> ELSE <<(CHOOSE e \in live : TRUE).value>>

\* the store after cache.get(key): an expired entry under key is dropped
cache_after_get(store, key, now) ==
    {e \in store : e.key # key \/ e.expires > now}

\* cache.set(key, value, timeout) at time now
cache_set(store, key, value, timeout, now) ==
    {e \in store : e.key # key}
        \cup {[key |-> key, value |-> value, expires |-> now + timeout]}

\* provider.fetch_points(limit=limit, source=source) called at time now: the
\* list the provider answers with, which names the call that asked for it
fetch_points(provider_key, source, limit, now) ==
    <<[provider |-> provider_key, source |-> source, limit |-> limit, at |-> now]>>

\* the record of a get_points call
\*   hit      cache.get returned a value
\*   stale    an expired entry was stored under the key when the call began
\*   fetched  number of provider.fetch_points calls made
\*   stored   cache.set was called
GetPointsRecord(source, provider_key, ttl, limit, key, hit, stale, fetched, stored, points) ==
    [view     |-> "get_points",
     source   |-> source,
     provider |-> provider_key,
     ttl      |-> ttl,
     limit    |-> limit,
     key      |-> key,
     hit      |-> hit,
     stale    |-> stale,
     fetched  |-> fetched,
     stored   |-> stored,
     points   |-> points]

\* Variant of get_points that returns the fetched points without storing them.
get_points_NoStore(cfg, store, now, source) ==
    LET provider_key == conf_get(cfg, "PROVIDER")
        ttl          == safe_ttl(conf_get(cfg, "CACHE_SECONDS"))
        limit        == safe_limit(conf_get(cfg, "POINT_LIMIT"))
        key          == cache_key(provider_key, source, limit)
        cached       == cache_get(store, key, now)
        stale        == EntriesAt(store, key) # {} /\ cached = <<>>
        afterGet     == cache_after_get(store, key, now)
        points       == fetch_points(provider_key, source, limit, now)
    IN  IF ~Truthy(provider_key)
        THEN [cache |-> store,
              rec   |-> GetPointsRecord(source, provider_key, 0, 0, <<>>,
                                        FALSE, FALSE, 0, FALSE, <<>>)]
        ELSE IF cached # <<>>
        THEN [cache |-> afterGet,
              rec   |-> GetPointsRecord(source, provider_key, ttl, limit, key,
                                        TRUE, FALSE, 0, FALSE, cached[1])]
        ELSE IF provider_key \notin PROVIDERS
        THEN [cache |-> afterGet,
              rec   |-> GetPointsRecord(source, provider_key, ttl, limit, key,
                                        FALSE, stale, 0, FALSE, <<>>)]
        ELSE [cache |-> afterGet,
              rec   |-> GetPointsRecord(source, provider_key, ttl, limit, key,
                                        FALSE, stale, 1, FALSE, points)]

\* get_points(source) under the settings cfg, with the cache store, at time
\* now, the provider answering points if it is asked: the cache after the
\* call and the record of the call
get_points_with(cfg, store, now, source, points) ==
    LET provider_key == conf_get(cfg, "PROVIDER")
        ttl          == safe_ttl(conf_get(cfg, "CACHE_SECONDS"))
        limit        == safe_limit(conf_get(cfg, "POINT_LIMIT"))
        key          == cache_key(provider_key, source, limit)
        cached       == cache_get(store, key, now)
        stale        == EntriesAt(store, key) # {} /\ cached = <<>>
        afterGet     == cache_after_get(store, key, now)
    IN  IF ~Truthy(provider_key)
        THEN [cache |-> store,
              rec   |-> GetPointsRecord(source, provider_key, 0, 0, <<>>,
                                        FALSE, FALSE, 0, FALSE, <<>>)]
        ELSE IF cached # <<>>
        THEN [cache |-> afterGet,
              rec   |-> GetPointsRecord(source, provider_key, ttl, limit, key,
                                        TRUE, FALSE, 0, FALSE, cached[1])]
        ELSE IF provider_key \notin PROVIDERS
        THEN [cache |-> afterGet,
              rec   |-> GetPointsRecord(source, provider_key, ttl, limit, key,
                                        FALSE, stale, 0, FALSE, <<>>)]
        ELSE [cache |-> IF ttl > 0 THEN cache_set(afterGet, key, points, ttl, now)
                        ELSE afterGet,
              rec   |-> GetPointsRecord(source, provider_key, ttl, limit, key,
                                        FALSE, stale, 1, ttl > 0, points)]

\* get_points(source) with a provider whose answer names the call that asked
get_points(cfg, store, now, source) ==
    get_points_with(cfg, store, now, source,
        fetch_points(conf_get(cfg, "PROVIDER"), source,
                     safe_limit(conf_get(cfg, "POINT_LIMIT")), now))

\* settings.THREATMAP as shipped
ConfShipped ==
    [PROVIDER |-> CLOUDFLARE, CACHE_SECONDS |-> <<300>>, POINT_LIMIT |-> <<20>>,
     AUTO_REFRESH_MS |-> <<300000>>]

\* the threat map before its first request
ThreatIdle ==
    /\ cache = {}
    /\ clock = 0
    /\ conf = ConfShipped

----------------------------------------------------------------------------
(* The Cloudflare Radar provider: threatmap/providers/cloudflare.py *)

\* sub in s
Contains(s, sub) ==
    \E i \in 0..(Len(s) - Len(sub)) : SubSeq(s, i + 1, i + Len(sub)) = sub

UpperChar(c) ==
    IF \E u \in DOMAIN LowerOf : LowerOf[u] = c
    THEN CHOOSE u \in DOMAIN LowerOf : LowerOf[u] = c
    ELSE c

\* str.upper()
Upper(s) == [i \in 1..Len(s) |-> UpperChar(s[i])]

\* the keys of CENTROIDS
CENTROIDS ==
    {<<"U", "S">>, <<"C", "N">>, <<"R", "U">>, <<"B", "R">>, <<"I", "N">>, <<"G", "B">>, <<"D", "E">>,
     <<"J", "P">>, <<"F", "R">>, <<"C", "A">>, <<"A", "U">>, <<"K", "R">>, <<"N", "L">>, <<"I", "T">>,
     <<"E", "S">>, <<"T", "R">>, <<"M", "X">>, <<"S", "G">>, <<"S", "E">>, <<"N", "O">>, <<"P", "L">>}

LAYER7_ORIGIN == <<"l", "a", "y", "e", "r", "7", "_", "o", "r", "i", "g", "i", "n">>

LAYER7 == <<"l", "a", "y", "e", "r", "7">>

LAYER3 == <<"l", "a", "y", "e", "r", "3">>

ORIGIN == <<"o", "r", "i", "g", "i", "n">>

TARGET == <<"t", "a", "r", "g", "e", "t">>

API_BASE == <<"h", "t", "t", "p", "s", ":", "/", "/", "a", "p", "i", ".", "c", "l", "o", "u", "d", "f", "l", "a", "r", "e", ".", "c", "o", "m", "/", "c", "l", "i", "e", "n", "t", "/", "v", "4", "/">>

\* LAYER_URLS: source -> (endpoint path, country field of a row)
LAYER_URLS(source) ==
    IF source = LAYER7_ORIGIN
    THEN [endpoint |-> <<"r", "a", "d", "a", "r", "/", "a", "t", "t", "a", "c", "k", "s", "/", "l", "a", "y", "e", "r", "7", "/", "t", "o", "p", "/", "l", "o", "c", "a", "t", "i", "o", "n", "s", "/", "o", "r", "i", "g", "i", "n">>,
          field    |-> "originCountryAlpha2"]
    ELSE IF source = <<"l", "a", "y", "e", "r", "7", "_", "t", "a", "r", "g", "e", "t">>
    THEN [endpoint |-> <<"r", "a", "d", "a", "r", "/", "a", "t", "t", "a", "c", "k", "s", "/", "l", "a", "y", "e", "r", "7", "/", "t", "o", "p", "/", "l", "o", "c", "a", "t", "i", "o", "n", "s", "/", "t", "a", "r", "g", "e", "t">>,
          field    |-> "targetCountryAlpha2"]
    ELSE IF source = <<"l", "a", "y", "e", "r", "3", "_", "o", "r", "i", "g", "i", "n">>
    THEN [endpoint |-> <<"r", "a", "d", "a", "r", "/", "a", "t", "t", "a", "c", "k", "s", "/", "l", "a", "y", "e", "r", "3", "/", "t", "o", "p", "/", "l", "o", "c", "a", "t", "i", "o", "n", "s", "/", "o", "r", "i", "g", "i", "n">>,
          field    |-> "originCountryAlpha2"]
    ELSE IF source = LAYER3_TARGET
    THEN [endpoint |-> <<"r", "a", "d", "a", "r", "/", "a", "t", "t", "a", "c", "k", "s", "/", "l", "a", "y", "e", "r", "3", "/", "t", "o", "p", "/", "l", "o", "c", "a", "t", "i", "o", "n", "s", "/", "t", "a", "r", "g", "e", "t">>,
          field    |-> "targetCountryAlpha2"]
    ELSE [endpoint |-> <<"r", "a", "d", "a", "r", "/", "a", "t", "t", "a", "c", "k", "s", "/", "l", "a", "y", "e", "r", "7", "/", "t", "o", "p", "/", "l", "o", "c", "a", "t", "i", "o", "n", "s", "/", "o", "r", "i", "g", "i", "n">>,
          field    |-> "originCountryAlpha2"]

\* _url_for(source): the URL and the country field
url_for(source) ==
    [url   |-> API_BASE \o LAYER_URLS(PyOr(source, LAYER7_ORIGIN)).endpoint,
     field |-> LAYER_URLS(PyOr(source, LAYER7_ORIGIN)).field]

\* the keys _extract_rows looks for, in its order
ROW_KEYS == <<"attacks_origin", "attacks_target", "top_locations", "series", "data">>

\* _extract_rows(payload), result being payload.get("result") or {}: the list
\* under the first known key, else a list under any key, else []
extract_rows(result) ==
    IF \E i \in 1..Len(ROW_KEYS) : ROW_KEYS[i] \in DOMAIN result
    THEN result[ROW_KEYS[CHOOSE i \in 1..Len(ROW_KEYS) :
                    /\ ROW_KEYS[i] \in DOMAIN result
                    /\ \A j \in 1..(i - 1) : ROW_KEYS[j] \notin DOMAIN result]]
    ELSE IF DOMAIN result # {}
    THEN result[CHOOSE k \in DOMAIN result : TRUE]
    ELSE <<>>

\* One point of the heat map.  lat and lon (the centroid of the country plus
\* a random jitter) and intensity (a function of metric) are left out.
Point(country, metric, layer, direction) ==
    [country |-> country, metric |-> metric, layer |-> layer, direction |-> direction]

\* _fallback(source): the four sample points, whatever the limit
fallback(source) ==
    LET layer     == IF Truthy(source) /\ Contains(source, LAYER3) THEN "L3" ELSE "L7"
        direction == IF Truthy(source) /\ Contains(source, TARGET) THEN "target" ELSE "origin"
    IN  <<Point(<<"U", "S">>, 25, layer, direction),
          Point(<<"C", "N">>, 22, layer, direction),
          Point(<<"R", "U">>, 18, layer, direction),
          Point(<<"I", "T">>, 10, layer, direction)>>

\* the country code of a row: (row.get(country_field) or "").upper()
RowCountry(row, field) == Upper(PyOr(Get(row, field), <<>>))

\* float(row.get("value") or 0)
RowValue(row) == IF "value" \in DOMAIN row THEN row.value ELSE 0

\* the points of rows[:limit] whose country has a centroid
points_of(rows, limit, url, field) ==
    LET layer     == IF Contains(url, LAYER7) THEN "L7" ELSE "L3"
        direction == IF Contains(url, ORIGIN) THEN "origin" ELSE "target"
        head      == Prefix(rows, limit)
        kept      == SelectSeq(head, LAMBDA row : RowCountry(row, field) \in CENTROIDS)
    IN  [i \in 1..Len(kept) |->
            Point(RowCountry(kept[i], field), RowValue(kept[i]), layer, direction)]

\* CloudflareRadarProvider.fetch_points(limit, source), token: the API token
\* is set; answer: what the upstream answers if it is asked (status 0: the
\* transport fails; body.kind other than "json": response.json() raises)
cloudflare_fetch_points(token, answer, limit, source) ==
    IF ~token THEN fallback(source)
    ELSE IF answer.status = 0 \/ RaisesForStatus(answer.status) THEN fallback(source)
    ELSE IF answer.body.kind # "json" THEN fallback(source)
    ELSE LET rows   == extract_rows(answer.body.result)
             points == points_of(rows, limit, url_for(source).url, url_for(source).field)
         IN  IF rows = <<>> THEN fallback(source)
             ELSE IF points = <<>> THEN fallback(source)
             ELSE points

----------------------------------------------------------------------------
(* add_identity: breaches/views.py *)

ALICE_EXAMPLE == <<"a", "l", "i", "c", "e", "@", "e", "x", "a", "m", "p", "l", "e", ".", "c", "o", "m">>

BOB_EXAMPLE == <<"b", "o", "b", "@", "e", "x", "a", "m", "p", "l", "e", ".", "c", "o", "m">>

BOB_PADDED == <<" ", "b", "o", "b", "@", "e", "x", "a", "m", "p", "l", "e", ".", "c", "o", "m", " ">>

BOB_UPPER == <<"B", "o", "b", "@", "e", "x", "a", "m", "p", "l", "e", ".", "c", "o", "m">>

\* the addresses of the identities the scans run on
SeedAddress == <<ALICE_EXAMPLE, BOB_EXAMPLE>>

\* the pks of the rows whose address is addr
WithAddress(ids, addr, a) == {pk \in ids : addr[pk] = a}

\* the pk the database gives the next row
NextPk(ids) == IF ids = {} THEN 1 ELSE (CHOOSE m \in ids : \A pk \in ids : pk <= m) + 1

\* Variant of get_or_create that inserts without looking the address up.
get_or_create_identity_AlwaysCreate(ids, addr, a) ==
    [ids     |-> ids \cup {NextPk(ids)},
     addr    |-> [pk \in ids \cup {NextPk(ids)} |->
                     IF pk \in ids THEN addr[pk] ELSE a],
     created |-> TRUE,
     raised  |-> ""]

\* EmailIdentity.objects.get_or_create(address=a)
get_or_create_identity(ids, addr, a) ==
    LET found == WithAddress(ids, addr, a)
    IN  IF Cardinality(found) > 1
        THEN [ids |-> ids, addr |-> addr, created |-> FALSE,
              raised |-> "MultipleObjectsReturned"]
        ELSE IF found # {}
        THEN [ids |-> ids, addr |-> addr, created |-> FALSE, raised |-> ""]
        ELSE [ids     |-> ids \cup {NextPk(ids)},
              addr    |-> [pk \in ids \cup {NextPk(ids)} |->
                              IF pk \in ids THEN addr[pk] ELSE a],
              created |-> TRUE,
              raised  |-> ""]

\* the record of an add_identity request
\*   email    the posted value, address what is left of it after strip()
\*   status   302: every branch answers with a redirect; 500: an exception
\*   to       the URL name redirected to
AddIdentityRecord(method, email, a, created, level, status, to) ==
    [view    |-> "add_identity",
     method  |-> method,
     email   |-> email,
     address |-> a,
     created |-> created,
     level   |-> level,
     status  |-> status,
     to      |-> to]

\* POST add_identity with the form value email
AddIdentityPost(email) ==
    \E a \in {Strip(PyOr(email, <<>>))} :
        IF a = <<>>
        THEN /\ identities' = identities
             /\ address' = address
             /\ last' = AddIdentityRecord("POST", email, a, FALSE, "error", 302,
                                          "breaches:add")
        ELSE \E goc \in {get_or_create_identity(identities, address, a)} :
             /\ identities' = goc.ids
             /\ address' = goc.addr
             /\ last' = IF goc.raised # ""
                        THEN AddIdentityRecord("POST", email, a, FALSE, "", 500, "")
                        ELSE AddIdentityRecord("POST", email, a, goc.created, "success",
                                               302, "breaches:dashboard")

\* any other method of add_identity
AddIdentityGet ==
    /\ identities' = identities
    /\ address' = address
    /\ last' = AddIdentityRecord("GET", None, <<>>, FALSE, "", 302, "breaches:dashboard")

----------------------------------------------------------------------------
(* Inputs: what the breach API can answer *)

ADOBE == <<"A", "d", "o", "b", "e">>

ADOBE_PADDED == <<" ", "A", "d", "o", "b", "e", " ">>

CANVA == <<"C", "a", "n", "v", "a">>

ZYNGA == <<"Z", "y", "n", "g", "a">>

ADOBE_COM == <<"a", "d", "o", "b", "e", ".", "c", "o", "m">>

ADOBE_NET == <<"a", "d", "o", "b", "e", ".", "n", "e", "t">>

CANVA_COM == <<"c", "a", "n", "v", "a", ".", "c", "o", "m">>

DATE_2013_10_04 == <<"2", "0", "1", "3", "-", "1", "0", "-", "0", "4">>

TIMESTAMP_2013_12_04 == <<"2", "0", "1", "3", "-", "1", "2", "-", "0", "4", "T", "0", "0", ":", "0", "0", ":", "0", "0", "Z">>

DATE_2013_13_40 == <<"2", "0", "1", "3", "-", "1", "3", "-", "4", "0">>

TEXT_HTML == <<"t", "e", "x", "t", "/", "h", "t", "m", "l">>

APPLICATION_JSON_UTF8 == <<"A", "p", "p", "l", "i", "c", "a", "t", "i", "o", "n", "/", "J", "S", "O", "N", ";", " ", "c", "h", "a", "r", "s", "e", "t", "=", "u", "t", "f", "-", "8">>

\* a complete upstream record
RawAdobe ==
    [Name |-> ADOBE, Title |-> ADOBE, Domain |-> ADOBE_COM,
     BreachDate |-> DATE_2013_10_04, AddedDate |-> TIMESTAMP_2013_12_04]

\* a second record with the same Name (padded) and another domain, no dates
RawAdobeNet ==
    [Name |-> ADOBE_PADDED, Domain |-> ADOBE_NET]

\* a record without Name but with Title and Domain
RawCanvaNoName ==
    [Name |-> <<>>, Title |-> CANVA, Domain |-> CANVA_COM,
     BreachDate |-> DATE_2013_10_04]

\* a record whose BreachDate passes the format check but names no day
RawZyngaBadDate ==
    [Name |-> ZYNGA, Title |-> ZYNGA, BreachDate |-> DATE_2013_13_40]

\* a list element that is not an object
RawNonDict == [nondict |-> TRUE]

LINKEDIN == <<"L", "i", "n", "k", "e", "d", "I", "n">>

MONTH_2012_05 == <<"2", "0", "1", "2", "-", "0", "5">>

DATE_LOOSE == <<"a", "b", "c", "d", "-", "e", "f", "-", "g", "h", "i", "j">>

\* a record whose BreachDate is a month, whose AddedDate has the hyphens of
\* a date but no digits, whose ModifiedDate is a timestamp, and which
\* carries flags: true, null, a number, false; the other four are absent
RawLinkedIn ==
    [Name |-> LINKEDIN, BreachDate |-> MONTH_2012_05, AddedDate |-> DATE_LOOSE,
     ModifiedDate |-> TIMESTAMP_2013_12_04,
     IsVerified |-> "True", IsFabricated |-> "True", IsSensitive |-> "None",
     IsSpamList |-> "1", IsRetired |-> "False"]

RawRecords == {RawAdobe, RawAdobeNet, RawCanvaNoName}

RECURSIVE SeqsUpTo(_, _)
SeqsUpTo(S, n) ==
    IF n = 0 THEN {<<>>}
    ELSE LET shorter == SeqsUpTo(S, n - 1)
         IN  shorter \cup {Append(q, x) : q \in {t \in shorter : Len(t) = n - 1}, x \in S}

\* the breach lists the upstream can hold for an account
BreachLists ==
    SeqsUpTo(RawRecords, MaxBatch)
        \cup {<<RawZyngaBadDate>>, <<RawAdobe, RawZyngaBadDate>>, <<RawNonDict, RawAdobe>>,
              <<RawLinkedIn>>, <<RawAdobe, RawLinkedIn>>}

JsonList(items) == [kind |-> "list", items |-> items]

HttpResponse(status, ct, body) == [status |-> status, ct |-> ct, body |-> body]

\* the answers of the breach API (status 0: no answer, the transport fails)
HibpResponses ==
    {HttpResponse(200, APPLICATION_JSON, JsonList(b)) : b \in BreachLists}
        \cup {HttpResponse(200, APPLICATION_JSON_UTF8, JsonList(<<RawAdobe>>)),
              HttpResponse(200, TEXT_HTML, JsonList(<<RawAdobe>>)),
              HttpResponse(200, APPLICATION_JSON, [kind |-> "object", items |-> <<>>]),
              HttpResponse(200, APPLICATION_JSON, [kind |-> "invalid", items |-> <<>>]),
              HttpResponse(304, APPLICATION_JSON, JsonList(<<RawAdobe>>)),
              HttpResponse(401, TEXT_HTML, JsonList(<<>>)),
              HttpResponse(404, TEXT_HTML, JsonList(<<>>)),
              HttpResponse(429, APPLICATION_JSON, JsonList(<<RawAdobe>>)),
              HttpResponse(500, TEXT_HTML, JsonList(<<>>)),
              HttpResponse(0, <<>>, JsonList(<<>>))}

\* primary keys a request can name: the stored identities and one that is not
RequestPks == {1, 2, 3}

----------------------------------------------------------------------------
(* The breach pipeline as a state machine *)

NoRequest == [view |-> "none"]

\* the rows a deployment holds when its key is withdrawn: none, or those an
\* earlier scan of identity 1 stored while the key was configured
StoredBefore ==
    {<<>>, Reconcile(<<>>, 1, NormalizeAll(<<RawAdobe, RawAdobeNet>>)).table}

InitBreach ==
    /\ identities = {1, 2}
    /\ address = [pk \in identities |-> SeedAddress[pk]]
    /\ hibpKey \in BOOLEAN
    /\ hits \in (IF hibpKey THEN {<<>>} ELSE StoredBefore)
    /\ findings = <<>>
    /\ shodanKey = TRUE
    /\ nreq = 0
    /\ last = NoRequest
    /\ ThreatIdle
    /\ inflight = {}

ScanIdentity ==
    /\ nreq < MaxScans
    /\ \/ \E pk \in identities, resp \in HibpResponses : ScanIdentityWith(pk, resp)
       \/ \E pk \in RequestPks \ identities : ScanIdentityNotFound(pk)
    /\ nreq' = nreq + 1
    /\ UNCHANGED <<identities, address, inflight, findings, hibpKey, shodanKey, threatVars>>

NextBreach == ScanIdentity

SpecBreach == InitBreach /\ [][NextBreach]_vars

----------------------------------------------------------------------------
(* scan_identity under concurrent requests: per record the loop runs the     *)
(* exists() queries of the name assignment, the SELECT of update_or_create   *)
(* and its INSERT or UPDATE, and other requests run in between.  BreachHit   *)
(* declares unique_together (identity, breach_name) (models.py:147).         *)

\* Variant of the write for a table without the unique constraint: the
\* INSERT of a key that was stored since the SELECT is accepted.
hit_write_NoConstraint(table, identity, name, d, found, contended) ==
    (IF ~(\A k \in {"occurred_on", "added_on", "modified_on"} : DateFieldAccepts(d[k]))
     THEN {[table |-> table, created |-> FALSE, conflict |-> FALSE,
            raised |-> "ValidationError"]}
     ELSE IF found
     THEN {[table    |-> update_or_create_hit(table, identity, name, d).table,
            created  |-> FALSE, conflict |-> FALSE, raised |-> ""]}
     ELSE {[table    |-> Append(table, HitRow(identity, name, d)),
            created  |-> TRUE, conflict |-> FALSE, raised |-> ""]})
    \cup (IF contended
          THEN {[table |-> table, created |-> FALSE, conflict |-> FALSE,
                 raised |-> "OperationalError"]}
          ELSE {})

\* What the write of update_or_create can do for a record whose SELECT gave
\* found: the set of outcomes [table, created, conflict, raised].
\*   found                 UPDATE the row
\*   not found, key free   INSERT
\*   not found, key stored since   the INSERT raises IntegrityError;
\*                         get_or_create reads the row again and
\*                         update_or_create updates it (conflict)
\*   contended             the database may refuse the write: OperationalError
hit_write(table, identity, name, d, found, contended) ==
    (IF ~(\A k \in {"occurred_on", "added_on", "modified_on"} : DateFieldAccepts(d[k]))
     THEN {[table |-> table, created |-> FALSE, conflict |-> FALSE,
            raised |-> "ValidationError"]}
     ELSE IF found \/ HitExists(table, identity, name)
     THEN {[table    |-> update_or_create_hit(table, identity, name, d).table,
            created  |-> FALSE, conflict |-> ~found, raised |-> ""]}
     ELSE {[table    |-> Append(table, HitRow(identity, name, d)),
            created  |-> TRUE, conflict |-> FALSE, raised |-> ""]})
    \cup (IF contended
          THEN {[table |-> table, created |-> FALSE, conflict |-> FALSE,
                 raised |-> "OperationalError"]}
          ELSE {})

\* the locals of a scan_identity run that is in its loop
\*   k      the record it is at;  stage: "name", "select" or "write"
\*   r      the record as resolved;  name: the name assigned to it
\*   found  the SELECT of update_or_create found a row
ScanLocals(req, pk, resp, res) ==
    [req        |-> req,
     view       |-> "scan_identity",
     pk         |-> pk,
     resp       |-> resp,
     res        |-> res,
     k          |-> 1,
     stage      |-> "name",
     seen_names |-> {},
     r          |-> <<>>,
     name       |-> <<>>,
     found      |-> FALSE,
     created    |-> 0,
     updated    |-> 0,
     trace      |-> <<>>]

\* the record of a run that left its loop with the outcome out
ScanReturned(s, out) ==
    ScanIdentityRecord(s.pk, s.resp, s.res, out,
                       [created |-> s.created, updated |-> s.updated, trace |-> s.trace])
        @@ [req |-> s.req]

\* scan_identity from the request to the first record of the loop
ScanIdentityFetch(pk, resp) ==
    \E res \in {breaches_for_account(hibpKey, resp)} :
        \E s \in {ScanLocals(nreq + 1, pk, resp, res)} :
            IF res.kind # "ok"
            THEN /\ inflight' = inflight
                 /\ last' = ScanReturned(s, res.kind)
            ELSE IF res.items = <<>>
            THEN /\ inflight' = inflight
                 /\ last' = ScanReturned(s, "ok")
            ELSE /\ inflight' = inflight \cup {s}
                 /\ last' = last

\* the loop body up to seen_names.add(name), the exists() queries included
ScanIdentityName(s) ==
    \E r \in {ResolveItem(s.res.items[s.k])} :
        \E name \in {AssignName(hits, s.pk, r.name, s.seen_names)} :
            /\ inflight' = (inflight \ {s}) \cup
                   {[s EXCEPT !.stage = "select", !.r = r, !.name = name,
                              !.seen_names = s.seen_names \cup {name}]}
            /\ hits' = hits
            /\ last' = last

\* the SELECT of update_or_create
ScanIdentitySelect(s) ==
    /\ inflight' = (inflight \ {s}) \cup
           {[s EXCEPT !.stage = "write", !.found = HitExists(hits, s.pk, s.name)]}
    /\ hits' = hits
    /\ last' = last

\* the write of update_or_create, the counters, and the next record or the
\* end of the run
ScanIdentityWrite(s) ==
    \E w \in hit_write(hits, s.pk, s.name, Defaults(s.r), s.found, inflight # {s}) :
        \E t \in {[s EXCEPT !.k       = s.k + 1,
                            !.stage   = "name",
                            !.created = s.created + (IF w.created THEN 1 ELSE 0),
                            !.updated = s.updated + (IF w.created THEN 0 ELSE 1),
                            !.trace   = Append(s.trace,
                                            [base     |-> s.r.name,
                                             name     |-> s.name,
                                             found    |-> s.found,
                                             conflict |-> w.conflict,
                                             created  |-> w.created])]} :
            /\ hits' = w.table
            /\ IF w.raised # ""
               THEN /\ inflight' = inflight \ {s}
                    /\ last' = ScanReturned(s, w.raised)
               ELSE IF t.k > Len(s.res.items)
               THEN /\ inflight' = inflight \ {s}
                    /\ last' = ScanReturned(t, "ok")
               ELSE /\ inflight' = (inflight \ {s}) \cup {t}
                    /\ last' = last

\* the answers of the breach API to the racing scans: one record, two
\* records of the same name, a record whose date is rejected, a refusal
RaceResponses ==
    {HttpResponse(200, APPLICATION_JSON, JsonList(b)) :
        b \in {<<RawAdobe>>, <<RawAdobe, RawAdobeNet>>, <<RawAdobeNet, RawZyngaBadDate>>}}
        \cup {HttpResponse(429, APPLICATION_JSON, JsonList(<<>>))}

InitBreachRace ==
    /\ identities = {1, 2}
    /\ address = [pk \in identities |-> SeedAddress[pk]]
    /\ hits = <<>>
    /\ findings = <<>>
    /\ hibpKey = TRUE
    /\ shodanKey = TRUE
    /\ nreq = 0
    /\ last = NoRequest
    /\ ThreatIdle
    /\ inflight = {}

\* a scan_identity request arrives, asks the breach API and enters its loop
BeginScanIdentity ==
    /\ nreq < MaxScans
    /\ \E pk \in identities, resp \in RaceResponses : ScanIdentityFetch(pk, resp)
    /\ nreq' = nreq + 1
    /\ UNCHANGED <<identities, address, hits, findings, hibpKey, shodanKey, threatVars>>

\* a run in its loop does its next database step
StepScanIdentity ==
    /\ \E s \in inflight :
           \/ s.stage = "name" /\ ScanIdentityName(s)
           \/ s.stage = "select" /\ ScanIdentitySelect(s)
           \/ s.stage = "write" /\ ScanIdentityWrite(s)
    /\ UNCHANGED <<identities, address, findings, hibpKey, shodanKey, nreq, threatVars>>

NextBreachRace == BeginScanIdentity \/ StepScanIdentity

SpecBreachRace == InitBreachRace /\ [][NextBreachRace]_vars

----------------------------------------------------------------------------
(* Inputs: what the host API can answer *)

IP_8_8_8_8 == <<"8", ".", "8", ".", "8", ".", "8">>

IP_PADDED == <<" ", "8", ".", "8", ".", "8", ".", "8">>

HOST_DNS_GOOGLE == <<"d", "n", "s", ".", "g", "o", "o", "g", "l", "e">>

HOST_UNKNOWN == <<"n", "x", ".", "i", "n", "v", "a", "l", "i", "d">>

HOST_DNS2 == <<"d", "n", "s", "2">>

GOOGLE == <<"G", "o", "o", "g", "l", "e">>

SEEN_2024_01_01 == <<"2", "0", "2", "4", "-", "0", "1", "-", "0", "1">>

\* a full snapshot of 8.8.8.8
Snapshot1 ==
    [ip_str |-> IP_8_8_8_8, hostnames |-> <<HOST_DNS_GOOGLE>>, ports |-> <<53, 443>>,
     org |-> GOOGLE, last_update |-> SEEN_2024_01_01]

\* a later snapshot of 8.8.8.8: other hostnames, ports unsorted and repeated,
\* no org, no last_update
Snapshot2 ==
    [ip_str |-> IP_8_8_8_8, hostnames |-> <<HOST_DNS_GOOGLE, HOST_DNS2>>,
     ports |-> <<443, 53, 443, 80>>]

\* a snapshot of another host that carries only the integer ip
Snapshot3 ==
    [ip |-> 1111, hostnames |-> <<>>, ports |-> <<22>>]

\* a payload without any address
SnapshotNoIp ==
    [hostnames |-> <<HOST_DNS2>>]

ShodanAnswer(status, data) == [status |-> status, data |-> data]

\* the answers of the host API (status 0: no answer, the transport fails)
ShodanAnswers ==
    {ShodanAnswer(200, d) : d \in {Snapshot1, Snapshot2, Snapshot3, SnapshotNoIp}}
        \cup {ShodanAnswer(404, <<>>), ShodanAnswer(429, <<>>),
              ShodanAnswer(500, <<>>), ShodanAnswer(0, <<>>)}

\* the answer sequences one call consumes to the end
ShodanScripts ==
    {q \in SeqsUpTo(ShodanAnswers, DEFAULT_RETRIES + 1) :
        /\ q # <<>>
        /\ FetchFrom(q, 0, DEFAULT_RETRIES, <<>>).kind # "incomplete"
        /\ FetchFrom(q, 0, DEFAULT_RETRIES, <<>>).requests = Len(q)}

\* the (target, script) pairs of the requests: an IP literal against every
\* script, a host name against the scripts of a single answer
ScanTargetInputs ==
    ({IP_PADDED} \X ShodanScripts)
        \cup ({HOST_DNS_GOOGLE} \X {q \in ShodanScripts : Len(q) = 1})
        \cup {<<HOST_UNKNOWN, <<ShodanAnswer(404, <<>>)>> >>}

BlankTargets == {<<>>, <<" ">>}

----------------------------------------------------------------------------
(* The host pipeline as a state machine *)

InitHost ==
    /\ identities = {1, 2}
    /\ address = [pk \in identities |-> SeedAddress[pk]]
    /\ hits = <<>>
    /\ findings = <<>>
    /\ hibpKey = TRUE
    /\ shodanKey \in BOOLEAN
    /\ nreq = 0
    /\ last = NoRequest
    /\ ThreatIdle
    /\ inflight = {}

ScanTarget ==
    /\ nreq < MaxScans
    /\ \/ \E in \in ScanTargetInputs : ScanTargetWith(Strip(in[1]), in[2])
       \/ \E raw \in BlankTargets : Strip(raw) = <<>> /\ ScanTargetBlank(Strip(raw))
    /\ nreq' = nreq + 1
    /\ UNCHANGED <<identities, address, inflight, hits, hibpKey, shodanKey, threatVars>>

NextHost == ScanTarget

SpecHost == InitHost /\ [][NextHost]_vars

----------------------------------------------------------------------------
(* scan_target under concurrent requests: update_or_create is a SELECT       *)
(* followed by an INSERT or an UPDATE, and other requests run in between.    *)
(* ShodanFinding declares no constraint on ip (models.py:198).               *)

\* a stored row with its primary key
StoredFinding(id, ip, d, created_on) == [id |-> id] @@ FindingRow(ip, d, created_on)

\* a primary key no row has had: keys are handed out once (the seeded row has 1)
FreshFindingId(req) == req + 1

\* the primary keys of ShodanFinding.objects.filter(ip=ip)
FindingIds(table, ip) ==
    {table[i].id : i \in {j \in 1..Len(table) : table[j].ip = ip}}

\* the primary keys of all rows
AllFindingIds(table) == {table[i].id : i \in 1..Len(table)}

\* What the write of update_or_create can do for the request r, whose SELECT
\* found the keys r.found: the set of outcomes [table, created, raised].
\*   nothing found      INSERT a new row
\*   found, still there UPDATE it in place
\*   found, deleted since   save() inserts it again, or (save with
\*                      update_fields) raises DatabaseError
\*   contended          the database may refuse the write: OperationalError
finding_write(table, r, contended) ==
    (IF r.found = {}
     THEN {[table   |-> Append(table, StoredFinding(FreshFindingId(r.req), r.ip, r.d, r.now)),
            created |-> TRUE, raised |-> ""]}
     ELSE IF r.found \subseteq AllFindingIds(table)
     THEN {[table   |-> [i \in 1..Len(table) |->
                            IF table[i].id \in r.found
                            THEN StoredFinding(table[i].id, r.ip, r.d, table[i].created_on)
                            ELSE table[i]],
            created |-> FALSE, raised |-> ""]}
     ELSE {[table   |-> Append(table, StoredFinding(CHOOSE id \in r.found : TRUE,
                                                    r.ip, r.d, r.now)),
            created |-> FALSE, raised |-> ""],
           [table |-> table, created |-> FALSE, raised |-> "DatabaseError"]})
    \cup (IF contended
          THEN {[table |-> table, created |-> FALSE, raised |-> "OperationalError"]}
          ELSE {})

\* scan_target from the request to the SELECT of update_or_create: the
\* request ends here unless fetch_host gave a payload with an address that
\* at most one row has
ScanTargetSelect(target, script) ==
    \E res \in {fetch_host(shodanKey, target, script, DEFAULT_RETRIES)} :
        IF res.kind = "ShodanError"
        THEN /\ inflight' = inflight
             /\ last' = ScanTargetRecord(target, script, res, "ShodanError", "error", None, <<>>)
        ELSE IF res.kind = "none" \/ res.data = <<>>
        THEN /\ inflight' = inflight
             /\ last' = ScanTargetRecord(target, script, res, "nodata", "info", None, <<>>)
        ELSE IF TargetIp(res.data) = None
        THEN /\ inflight' = inflight
             /\ last' = ScanTargetRecord(target, script, res, "noip", "error", None, <<>>)
        ELSE IF Cardinality(FindingIds(findings, TargetIp(res.data))) > 1
        THEN /\ inflight' = inflight
             /\ last' = ScanTargetRecord(target, script, res, "MultipleObjectsReturned",
                                         "error", TargetIp(res.data), <<>>)
        ELSE /\ inflight' = inflight \cup
                    {[req    |-> nreq + 1,
                      view   |-> "scan_target",
                      target |-> target,
                      script |-> script,
                      res    |-> res,
                      ip     |-> TargetIp(res.data),
                      d      |-> FindingDefaults(res.data, Now(nreq)),
                      found  |-> FindingIds(findings, TargetIp(res.data)),
                      now    |-> Now(nreq)]}
             /\ last' = last

\* scan_target from the write of update_or_create to the redirect
ScanTargetSave(r) ==
    \E w \in finding_write(findings, r, inflight # {r}) :
        /\ findings' = w.table
        /\ inflight' = inflight \ {r}
        /\ last' = IF w.raised # ""
                   THEN ScanTargetRecord(r.target, r.script, r.res, w.raised, "error",
                                         r.ip, <<>>)
                   ELSE ScanTargetRecord(r.target, r.script, r.res, "saved", "success",
                                         r.ip,
                                         SelectSeq(findings, LAMBDA row : row.id \in r.found))

\* POST delete_scan(pk): get_object_or_404, then scan.delete()
delete_scan(pk) ==
    IF pk \in AllFindingIds(findings)
    THEN /\ findings' = SelectSeq(findings, LAMBDA row : row.id # pk)
         /\ last' = [view |-> "delete_scan", pk |-> pk, outcome |-> "removed"]
    ELSE /\ findings' = findings
         /\ last' = [view |-> "delete_scan", pk |-> pk, outcome |-> "Http404"]

\* the requests that race: an IP literal, the upstream giving one answer
RaceTargetInputs == {in \in ScanTargetInputs : in[1] = IP_PADDED /\ Len(in[2]) = 1}

\* the table holds nothing, or the row of an earlier scan of 8.8.8.8
FindingsBefore ==
    {<<>>,
     <<StoredFinding(1, IP_8_8_8_8, FindingDefaults(Snapshot1, Now(0)), Now(0))>>}

InitHostRace ==
    /\ identities = {1, 2}
    /\ address = [pk \in identities |-> SeedAddress[pk]]
    /\ hits = <<>>
    /\ findings \in FindingsBefore
    /\ hibpKey = TRUE
    /\ shodanKey = TRUE
    /\ nreq = 0
    /\ last = NoRequest
    /\ ThreatIdle
    /\ inflight = {}

\* a scan_target request arrives and runs up to its SELECT
BeginScanTarget ==
    /\ nreq < MaxScans
    /\ \E in \in RaceTargetInputs : ScanTargetSelect(Strip(in[1]), in[2])
    /\ nreq' = nreq + 1
    /\ UNCHANGED <<identities, address, hits, findings, hibpKey, shodanKey, threatVars>>

\* a scan_target request that has done its SELECT runs to its end
FinishScanTarget ==
    /\ \E r \in inflight : ScanTargetSave(r)
    /\ UNCHANGED <<identities, address, hits, hibpKey, shodanKey, nreq, threatVars>>

\* a delete_scan request, served at once
DeleteScan ==
    /\ nreq < MaxScans
    /\ \E pk \in 1..(MaxScans + 1) : delete_scan(pk)
    /\ nreq' = nreq + 1
    /\ UNCHANGED <<identities, address, inflight, hits, hibpKey, shodanKey, threatVars>>

NextHostRace == BeginScanTarget \/ FinishScanTarget \/ DeleteScan

SpecHostRace == InitHostRace /\ [][NextHostRace]_vars

----------------------------------------------------------------------------
(* The reconciliation loop of scan_identity on its own: the loop applied to  *)
(* any list of items, in the client's normalized keys or in raw HIBP keys.   *)

\* an item without any field
ItemEmpty == [Name |-> None]

\* an item whose identifiers are blank and whose only date is BreachDate
ItemDatesOnly == [Name |-> <<" ">>, Title |-> <<>>, BreachDate |-> TIMESTAMP_2013_12_04]

\* an item in raw keys with Title and Domain but no Name
ItemTitleDomain == [Title |-> CANVA, Domain |-> CANVA_COM]

\* an item as the client normalizes it
ItemNormalized == normalize_breach(RawAdobe)[1]

\* an item in raw keys whose BreachDate has the hyphens of a date but no
\* digits, and which carries a flag
ItemLoose == [Name |-> LINKEDIN, BreachDate |-> DATE_LOOSE, IsMalware |-> "1"]

ReconItems == {ItemEmpty, ItemDatesOnly, ItemTitleDomain, ItemNormalized, ItemLoose}

InitRecon ==
    /\ identities = {1}
    /\ address = [pk \in identities |-> SeedAddress[pk]]
    /\ hits = <<>>
    /\ findings = <<>>
    /\ hibpKey = TRUE
    /\ shodanKey = TRUE
    /\ nreq = 0
    /\ last = NoRequest
    /\ ThreatIdle
    /\ inflight = {}

ReconcileBatch ==
    /\ nreq < MaxScans
    /\ \E pk \in identities, results \in SeqsUpTo(ReconItems, MaxBatch) :
           \E rec \in {Reconcile(hits, pk, results)} :
               /\ hits' = rec.table
               /\ last' = [view    |-> "reconcile",
                           pk      |-> pk,
                           results |-> results,
                           outcome |-> IF rec.raised # "" THEN rec.raised ELSE "ok",
                           created |-> rec.created,
                           updated |-> rec.updated,
                           trace   |-> rec.trace]
    /\ nreq' = nreq + 1
    /\ UNCHANGED <<identities, address, inflight, findings, hibpKey, shodanKey, threatVars>>

NextRecon == ReconcileBatch

SpecRecon == InitRecon /\ [][NextRecon]_vars

----------------------------------------------------------------------------
(* fetch_host request by request: the while loop of shodan_client.py, one    *)
(* step per HTTP request, for every retries argument up to MaxRetries.       *)

\* Variant of the loop body whose 429 back-off is the fixed delay of the
\* transport-error branch.
FetchStep_FixedBackoff(answer, attempt, retries) ==
    LET R(kind, att, sleep, data) ==
            [kind |-> kind, attempt |-> att, sleep |-> sleep, data |-> data]
    IN  IF answer.status = 0
        THEN IF attempt < retries
             THEN R("retry", attempt + 1, <<1>>, <<>>)
             ELSE R("ShodanError", attempt, <<>>, <<>>)
        ELSE IF answer.status = 404 THEN R("none", attempt, <<>>, <<>>)
        ELSE IF RaisesForStatus(answer.status)
        THEN IF answer.status = 429 /\ attempt < retries
             THEN R("retry", attempt + 1, <<1>>, <<>>)
             ELSE R("ShodanError", attempt, <<>>, <<>>)
        ELSE R("data", attempt, <<>>, WithIpStr(answer.data))

\* Variant of the loop body that sleeps and continues after a transport
\* error on the last attempt too, instead of raising.
FetchStep_TransportNoRaise(answer, attempt, retries) ==
    LET R(kind, att, sleep, data) ==
            [kind |-> kind, attempt |-> att, sleep |-> sleep, data |-> data]
    IN  IF answer.status = 0
        THEN R("retry", attempt + 1, <<1>>, <<>>)
        ELSE IF answer.status = 404 THEN R("none", attempt, <<>>, <<>>)
        ELSE IF RaisesForStatus(answer.status)
        THEN IF answer.status = 429 /\ attempt < retries
             THEN R("retry", attempt + 1, <<2 ^ attempt>>, <<>>)
             ELSE R("ShodanError", attempt, <<>>, <<>>)
        ELSE R("data", attempt, <<>>, WithIpStr(answer.data))

\* One pass of the while loop body, the upstream answering the request with
\* answer (status 0: requests raises a RequestException that is no HTTPError).
\*   kind    "retry" (continue), "none" (return None), "data" (return data)
\*           or "ShodanError" (raise)
\*   attempt the attempt counter after the pass
\*   sleep   the delay taken, a sequence of at most one number of seconds
FetchStep(answer, attempt, retries) ==
    LET R(kind, att, sleep, data) ==
            [kind |-> kind, attempt |-> att, sleep |-> sleep, data |-> data]
    IN  IF answer.status = 0
        THEN IF attempt < retries
             THEN R("retry", attempt + 1, <<1>>, <<>>)
             ELSE R("ShodanError", attempt, <<>>, <<>>)
        ELSE IF answer.status = 404 THEN R("none", attempt, <<>>, <<>>)
        ELSE IF RaisesForStatus(answer.status)
        THEN IF answer.status = 429 /\ attempt < retries
             THEN R("retry", attempt + 1, <<2 ^ attempt>>, <<>>)
             ELSE R("ShodanError", attempt, <<>>, <<>>)
        ELSE R("data", attempt, <<>>, WithIpStr(answer.data))

\* a call of fetch_host(target, retries=retries) that has reached the loop
\* (key configured, target resolved): attempt = 0, nothing sent
FetchStart(retries) ==
    [view     |-> "fetch_host",
     retries  |-> retries,
     attempt  |-> 0,
     requests |-> 0,
     sleeps   |-> <<>>,
     answers  |-> <<>>,
     result   |-> "running",
     data     |-> <<>>]

InitFetch ==
    /\ identities = {1, 2}
    /\ address = [pk \in identities |-> SeedAddress[pk]]
    /\ hits = <<>>
    /\ findings = <<>>
    /\ hibpKey = TRUE
    /\ shodanKey = TRUE
    /\ nreq = 0
    /\ last \in {FetchStart(retries) : retries \in 0..MaxRetries}
    /\ ThreatIdle
    /\ inflight = {}

\* one pass of "while attempt <= retries": a request, its answer, and the
\* return, raise or sleep-and-continue that follows
FetchAttempt ==
    /\ last.result = "running"
    /\ last.attempt <= last.retries
    /\ \E answer \in ShodanAnswers :
           \E st \in {FetchStep(answer, last.attempt, last.retries)} :
               last' = [last EXCEPT !.attempt  = st.attempt,
                                    !.requests = @ + 1,
                                    !.sleeps   = @ \o st.sleep,
                                    !.answers  = Append(@, answer.status),
                                    !.result   = IF st.kind = "retry" THEN "running"
                                                 ELSE st.kind,
                                    !.data     = st.data]
    /\ UNCHANGED <<identities, address, inflight, hits, findings, hibpKey, shodanKey, nreq, threatVars>>

NextFetch == FetchAttempt

SpecFetch == InitFetch /\ [][NextFetch]_vars

\* requests.get returns or raises within its timeout, and the sleeps end: a
\* call that can make its next pass makes it
SpecFetchFair == SpecFetch /\ WF_vars(NextFetch)

----------------------------------------------------------------------------
(* fetch_host for any retries argument: the parameter is a plain int, so a   *)
(* caller can pass a negative one, and the while loop can end by its         *)
(* condition.                                                                *)

\* the smallest retries argument given to fetch_host
MinRetries == -1

InitFetchAny ==
    /\ identities = {1, 2}
    /\ address = [pk \in identities |-> SeedAddress[pk]]
    /\ hits = <<>>
    /\ findings = <<>>
    /\ hibpKey = TRUE
    /\ shodanKey = TRUE
    /\ nreq = 0
    /\ last \in {FetchStart(retries) : retries \in MinRetries..MaxRetries}
    /\ ThreatIdle
    /\ inflight = {}

\* "while attempt <= retries" is false: the function ends without a return
\* statement, which returns None
FetchLoopExit ==
    /\ last.result = "running"
    /\ ~(last.attempt <= last.retries)
    /\ last' = [last EXCEPT !.result = "none"]
    /\ UNCHANGED <<identities, address, inflight, hits, findings, hibpKey, shodanKey, nreq, threatVars>>

NextFetchAny == FetchAttempt \/ FetchLoopExit

SpecFetchAny == InitFetchAny /\ [][NextFetchAny]_vars

----------------------------------------------------------------------------
(* Identities scanned and deleted: scan_identity and delete_identity served  *)
(* one after the other.                                                      *)

\* POST delete_identity(pk): get_object_or_404, then identity.delete(), which
\* deletes the identity's BreachHit rows with it (ForeignKey on_delete=CASCADE)
delete_identity(pk) ==
    IF pk \notin identities
    THEN /\ identities' = identities
         /\ address' = address
         /\ hits' = hits
         /\ last' = [view |-> "delete_identity", pk |-> pk, outcome |-> "Http404",
                     level |-> "", addr |-> <<>>]
    ELSE /\ identities' = identities \ {pk}
         /\ address' = [p \in identities \ {pk} |-> address[p]]
         /\ hits' = LET Other(row) == row.identity # pk IN SelectSeq(hits, Other)
         /\ last' = [view |-> "delete_identity", pk |-> pk, outcome |-> "ok",
                     level |-> "success", addr |-> address[pk]]

InitLifecycle ==
    /\ identities = {1, 2}
    /\ address = [pk \in identities |-> SeedAddress[pk]]
    /\ hits \in StoredBefore
    /\ findings = <<>>
    /\ hibpKey = TRUE
    /\ shodanKey = TRUE
    /\ nreq = 0
    /\ last = NoRequest
    /\ ThreatIdle
    /\ inflight = {}

DeleteIdentity ==
    /\ nreq < MaxScans
    /\ \E pk \in RequestPks : delete_identity(pk)
    /\ nreq' = nreq + 1
    /\ UNCHANGED <<inflight, findings, hibpKey, shodanKey, threatVars>>

NextLifecycle == ScanIdentity \/ DeleteIdentity

SpecLifecycle == InitLifecycle /\ [][NextLifecycle]_vars

----------------------------------------------------------------------------
(* The name resolution of scan_identity on its own: the first statements of  *)
(* the loop body applied to one record.                                      *)

\* a record with every identifying field, in raw HIBP keys
NameFields ==
    {[Name |-> n, Title |-> t, Domain |-> d,
      BreachDate |-> TIMESTAMP_2013_12_04, AddedDate |-> DATE_2013_10_04] :
        n \in {None, <<" ">>, ADOBE_PADDED},
        t \in {<<>>, CANVA},
        d \in {<<>>, <<" ">>, CANVA_COM}}

\* the client's key for each raw key
NormalizedKey ==
    [Name       |-> "breach_name",
     Title      |-> "title",
     Domain     |-> "domain",
     BreachDate |-> "occurred_on",
     AddedDate  |-> "added_on"]

\* the record f with the keys of S only
Restrict(f, S) == [k \in S |-> f[k]]

\* the record f with the keys of S only, in the client's keys
Normalized(f, S) ==
    [k \in {NormalizedKey[r] : r \in S} |->
        f[CHOOSE r \in S : NormalizedKey[r] = k]]

\* the records resolved: every subset of the fields, in raw keys and in the
\* client's keys
NameItems ==
    {Restrict(f, S) : f \in NameFields, S \in (SUBSET DOMAIN NormalizedKey) \ {{}}}
        \cup {Normalized(f, S) : f \in NameFields,
                                 S \in (SUBSET DOMAIN NormalizedKey) \ {{}}}

InitNames ==
    /\ identities = {1}
    /\ address = [pk \in identities |-> SeedAddress[pk]]
    /\ hits = <<>>
    /\ findings = <<>>
    /\ hibpKey = TRUE
    /\ shodanKey = TRUE
    /\ nreq = 0
    /\ last = NoRequest
    /\ ThreatIdle
    /\ inflight = {}

\* the loop body up to the assignment of name, for one record
ResolveName ==
    /\ nreq < MaxCalls
    /\ \E item \in NameItems :
           last' = [view |-> "resolve", item |-> item, r |-> ResolveItem(item)]
    /\ nreq' = nreq + 1
    /\ UNCHANGED <<identities, address, inflight, hits, findings, hibpKey, shodanKey, threatVars>>

NextNames == ResolveName

SpecNames == InitNames /\ [][NextNames]_vars

----------------------------------------------------------------------------
(* The KEV ticker feed: security_ticker/services/sources.py *)

CISA_CATALOG ==
    <<"h", "t", "t", "p", "s", ":", "/", "/", "w", "w", "w", ".", "c", "i", "s", "a", ".", "g", "o", "v", "/", "k", "n", "o", "w", "n", "-", "e", "x", "p", "l", "o", "i", "t", "e", "d", "-", "v", "u", "l", "n", "e", "r", "a", "b", "i", "l", "i", "t", "i", "e", "s", "-", "c", "a", "t", "a", "l", "o", "g">>

CISA_SEARCH ==
    CISA_CATALOG \o <<"?", "s", "e", "a", "r", "c", "h", "_", "a", "p", "i", "_", "f", "u", "l", "l", "t", "e", "x", "t", "=">>

NVD_DETAIL ==
    <<"h", "t", "t", "p", "s", ":", "/", "/", "n", "v", "d", ".", "n", "i", "s", "t", ".", "g", "o", "v", "/", "v", "u", "l", "n", "/", "d", "e", "t", "a", "i", "l", "/">>

NVD_HOME ==
    <<"h", "t", "t", "p", "s", ":", "/", "/", "n", "v", "d", ".", "n", "i", "s", "t", ".", "g", "o", "v", "/">>

CISA_KEV == <<"C", "I", "S", "A", " ", "K", "E", "V">>

NVD_HASKEV == <<"N", "V", "D", " ", "h", "a", "s", "K", "e", "v">>

NO_KEV_FEED ==
    <<"N", "o", " ", "K", "E", "V", " ", "f", "e", "e", "d", " ", "a", "v", "a", "i", "l", "a", "b", "l", "e">>

\* limit_int: int(limit), 10 when int() raises, clamped to 1..50.  The limit
\* argument is <<n>> for a value int() turns into n and <<>> for one it rejects.
kev_limit(limit) ==
    LET limit_int == IF limit = <<>> THEN 10 ELSE limit[1]
        capped    == IF limit_int < 50 THEN limit_int ELSE 50
    IN  IF capped > 1 THEN capped ELSE 1

\* _get_json: the decoded body, or the exception raised
\*   status 0: requests.get raises; 403 and 404 and every other 4xx and 5xx:
\*   HTTPError; a body that is no JSON: response.json() raises
get_json(answer) ==
    IF answer.status = 0 THEN [raised |-> "RequestException", data |-> <<>>]
    ELSE IF answer.status \in {403, 404} THEN [raised |-> "HTTPError", data |-> <<>>]
    ELSE IF RaisesForStatus(answer.status) THEN [raised |-> "HTTPError", data |-> <<>>]
    ELSE IF answer.body.kind = "invalid" THEN [raised |-> "JSONDecodeError", data |-> <<>>]
    ELSE [raised |-> "", data |-> answer.body]

\* d.get(k) for a key that holds a dict: {} when absent
GetDict(d, k) == IF k \in DOMAIN d THEN d[k] ELSE <<>>

\* the ticker item of one entry of the CISA list
cisa_item(v) ==
    LET cve  == PyOr(PyOr(Get(v, "cveID"), Get(v, "cve_id")), <<>>)
        date == Prefix(PyOr(PyOr(Get(v, "dateAdded"), Get(v, "date_added")), <<>>), 10)
    IN  [title |-> PyOr(cve, PyOr(Get(v, "vendorProject"), CISA_KEV)),
         date  |-> date,
         link  |-> IF Truthy(cve) THEN CISA_SEARCH \o cve ELSE CISA_CATALOG]

\* the ticker item of one entry of the NVD list
nvd_item(obj) ==
    LET cve_obj == GetDict(obj, "cve")
        cve     == PyOr(Get(cve_obj, "id"), <<>>)
        pub     == PyOr(Get(cve_obj, "published"), <<>>)
    IN  [title |-> PyOr(cve, NVD_HASKEV),
         date  |-> Prefix(pub, 10),
         link  |-> IF Truthy(cve) THEN NVD_DETAIL \o cve ELSE NVD_HOME]

\* What one try block gives: kind "items" (the list is returned), "empty"
\* (no item, no exception) or "error" (the exception named in error).
KevOutcome(kind, items, error) == [kind |-> kind, items |-> items, error |-> error]

\* the body of the try block for one CISA URL
cisa_attempt(answer, limit_int) ==
    LET got == get_json(answer)
    IN  IF got.raised # "" THEN KevOutcome("error", <<>>, got.raised)
        ELSE IF got.data.kind # "dict" THEN KevOutcome("error", <<>>, "AttributeError")
        ELSE LET d     == got.data.fields
                 vulns == IF GetList(d, "vulnerabilities") # <<>>
                          THEN d.vulnerabilities
                          ELSE GetList(d, "known_exploited_vulnerabilities")
                 taken == Prefix(vulns, limit_int)
             IN  IF \E i \in 1..Len(taken) : ~IsDict(taken[i])
                 THEN KevOutcome("error", <<>>, "AttributeError")
                 ELSE IF taken = <<>> THEN KevOutcome("empty", <<>>, "")
                 ELSE KevOutcome("items", [i \in 1..Len(taken) |-> cisa_item(taken[i])], "")

\* the body of the try block for the NVD API
nvd_attempt(answer, limit_int) ==
    LET got == get_json(answer)
    IN  IF got.raised # "" THEN KevOutcome("error", <<>>, got.raised)
        ELSE IF got.data.kind # "dict" THEN KevOutcome("error", <<>>, "AttributeError")
        ELSE LET taken == Prefix(GetList(got.data.fields, "vulnerabilities"), limit_int)
             IN  IF \E i \in 1..Len(taken) : ~IsDict(taken[i])
                 THEN KevOutcome("error", <<>>, "AttributeError")
                 ELSE IF taken = <<>> THEN KevOutcome("empty", <<>>, "")
                 ELSE KevOutcome("items", [i \in 1..Len(taken) |-> nvd_item(taken[i])], "")

\* Variant of the except clauses that catches only the exceptions of requests.
ExceptException_RequestsOnly(error) == error \in {"HTTPError", "RequestException"}

\* "except Exception": the clause of both try blocks catches every error of
\* the block
ExceptException(error) == TRUE

\* the static item of the final fallback
static_item ==
    [title |-> NO_KEV_FEED, date |-> <<>>, link |-> CISA_CATALOG]

\* a call of fetch_kev_items(limit) at the head of the loop over urls CISA
\* URLs: nothing requested
\*   next     index of the CISA URL to try next
\*   log      per request sent: the feed, the URL's index, the outcome kind
\*   sleeps   number of 0.2 s back-offs taken
\*   last_err the exception caught last ("": None)
\*   done     the call has returned (items, tag) or raised (raised # "")
KevStart(urls, limit) ==
    [view      |-> "fetch_kev_items",
     urls      |-> urls,
     limit_int |-> kev_limit(limit),
     next      |-> 1,
     log       |-> <<>>,
     sleeps    |-> 0,
     last_err  |-> "",
     done      |-> FALSE,
     items     |-> <<>>,
     tag       |-> "",
     raised    |-> ""]

KevLogEntry(source, url, kind) == [source |-> source, url |-> url, kind |-> kind]

\* Variant of the loop pass without "if items: return": the loop goes on to
\* the next URL after a URL that gave items.
kev_primary_pass_NoReturn(l, answer) ==
    LET r   == cisa_attempt(answer, l.limit_int)
        log == Append(l.log, KevLogEntry("primary", l.next, r.kind))
    IN  IF r.kind = "error" /\ ~ExceptException(r.error)
        THEN [l EXCEPT !.log = log, !.done = TRUE, !.raised = r.error]
        ELSE [l EXCEPT !.log = log, !.next = @ + 1,
                       !.sleeps = @ + (IF r.kind = "error" THEN 1 ELSE 0),
                       !.last_err = IF r.kind = "error" THEN r.error ELSE @]

\* one pass of "for url in CISA_KEV_JSONS", the feed answering with answer
kev_primary_pass(l, answer) ==
    LET r   == cisa_attempt(answer, l.limit_int)
        log == Append(l.log, KevLogEntry("primary", l.next, r.kind))
    IN  IF r.kind = "items"
        THEN [l EXCEPT !.log = log, !.done = TRUE, !.items = r.items,
                       !.tag = "cisa_json"]
        ELSE IF r.kind = "error" /\ ~ExceptException(r.error)
        THEN [l EXCEPT !.log = log, !.done = TRUE, !.raised = r.error]
        ELSE [l EXCEPT !.log = log, !.next = @ + 1,
                       !.sleeps = @ + (IF r.kind = "error" THEN 1 ELSE 0),
                       !.last_err = IF r.kind = "error" THEN r.error ELSE @]

\* the NVD try block and the final fallback that follows it
kev_secondary_pass(l, answer) ==
    LET r   == nvd_attempt(answer, l.limit_int)
        log == Append(l.log, KevLogEntry("secondary", 1, r.kind))
    IN  IF r.kind = "items"
        THEN [l EXCEPT !.log = log, !.done = TRUE, !.items = r.items,
                       !.tag = "nvd_hasKev"]
        ELSE IF r.kind = "error" /\ ~ExceptException(r.error)
        THEN [l EXCEPT !.log = log, !.done = TRUE, !.raised = r.error]
        ELSE [l EXCEPT !.log = log, !.done = TRUE, !.items = <<static_item>>,
                       !.tag = "fallback",
                       !.last_err = IF r.kind = "error" THEN r.error ELSE @]

CVE_2024_0001 == <<"C", "V", "E", "-", "2", "0", "2", "4", "-", "0", "0", "0", "1">>

CVE_2023_9999 == <<"C", "V", "E", "-", "2", "0", "2", "3", "-", "9", "9", "9", "9">>

ACME == <<"A", "c", "m", "e">>

ADDED_2024_01_02 == <<"2", "0", "2", "4", "-", "0", "1", "-", "0", "2">>

PUBLISHED_2024_01_02 == <<"2", "0", "2", "4", "-", "0", "1", "-", "0", "2", "T", "1", "0", ":", "0", "0", ":", "0", "0", ".", "0", "0", "0">>

\* entries of the CISA list: the canonical keys, the alternative keys, the
\* vendor alone
KevFull == [cveID |-> CVE_2024_0001, dateAdded |-> ADDED_2024_01_02, vendorProject |-> ACME]

KevAlt == [cve_id |-> CVE_2023_9999, date_added |-> PUBLISHED_2024_01_02]

KevVendorOnly == [vendorProject |-> ACME]

\* entries of the NVD list: a cve object, and an entry without one
NvdFull == [cve |-> [id |-> CVE_2024_0001, published |-> PUBLISHED_2024_01_02]]

NvdBare == [other |-> <<>>]

JsonDict(fields) == [kind |-> "dict", fields |-> fields]

KevAnswer(status, body) == [status |-> status, body |-> body]

KevDown ==
    {KevAnswer(403, JsonDict(<<>>)), KevAnswer(500, JsonDict(<<>>)),
     KevAnswer(0, JsonDict(<<>>)),
     KevAnswer(200, [kind |-> "invalid"]), KevAnswer(200, [kind |-> "list"])}

\* the answers of a CISA URL
KevPrimaryAnswers ==
    {KevAnswer(200, JsonDict([vulnerabilities |-> <<KevFull, KevVendorOnly>>])),
     KevAnswer(200, JsonDict([known_exploited_vulnerabilities |-> <<KevAlt>>])),
     KevAnswer(200, JsonDict([vulnerabilities |-> <<KevFull, RawNonDict>>])),
     KevAnswer(200, JsonDict([vulnerabilities |-> <<>>])),
     KevAnswer(200, JsonDict([title |-> CISA_KEV]))} \cup KevDown

\* the answers of the NVD API
KevSecondaryAnswers ==
    {KevAnswer(200, JsonDict([vulnerabilities |-> <<NvdFull, NvdBare>>])),
     KevAnswer(200, JsonDict([vulnerabilities |-> <<RawNonDict, NvdFull>>])),
     KevAnswer(200, JsonDict([vulnerabilities |-> <<>>])),
     KevAnswer(200, JsonDict([title |-> NVD_HASKEV]))} \cup KevDown

\* the limit arguments: below, inside and above the clamp, and one int() rejects
KevLimits == {<<0>>, <<1>>, <<10>>, <<60>>, <<>>}

InitKev ==
    /\ identities = {1, 2}
    /\ address = [pk \in identities |-> SeedAddress[pk]]
    /\ hits = <<>>
    /\ findings = <<>>
    /\ hibpKey = TRUE
    /\ shodanKey = TRUE
    /\ nreq = 0
    /\ last \in {KevStart(urls, limit) : urls \in 1..MaxPrimaryUrls, limit \in KevLimits}
    /\ ThreatIdle
    /\ inflight = {}

KevTryPrimary ==
    /\ ~last.done
    /\ last.next <= last.urls
    /\ \E answer \in KevPrimaryAnswers : last' = kev_primary_pass(last, answer)
    /\ UNCHANGED <<identities, address, inflight, hits, findings, hibpKey, shodanKey, nreq, threatVars>>

KevTrySecondary ==
    /\ ~last.done
    /\ last.next > last.urls
    /\ \E answer \in KevSecondaryAnswers : last' = kev_secondary_pass(last, answer)
    /\ UNCHANGED <<identities, address, inflight, hits, findings, hibpKey, shodanKey, nreq, threatVars>>

NextKev == KevTryPrimary \/ KevTrySecondary

SpecKev == InitKev /\ [][NextKev]_vars

----------------------------------------------------------------------------
(* The threat map as a state machine *)

\* a settings block without PROVIDER, with a short TTL and a limit over the cap
ConfShort ==
    [CACHE_SECONDS |-> <<2>>, POINT_LIMIT |-> <<500>>]

\* a settings block whose TTL and limit are rejected
ConfRejected ==
    [PROVIDER |-> CLOUDFLARE, CACHE_SECONDS |-> <<0>>, POINT_LIMIT |-> <<>>]

\* a settings block that names a provider that is not registered
ConfOther ==
    [PROVIDER |-> OTHER_PROVIDER, CACHE_SECONDS |-> <<300>>, POINT_LIMIT |-> <<20>>]

\* a settings block with an empty provider name
ConfNoProvider ==
    [PROVIDER |-> <<>>, CACHE_SECONDS |-> <<300>>, POINT_LIMIT |-> <<20>>]

ThreatConfs == {ConfShipped, ConfShort, ConfRejected, ConfOther, ConfNoProvider}

\* the source arguments of the two views: none, or a member of ALLOWED_SOURCES
PointSources == {None, LAYER3_TARGET}

\* the steps of the clock: a second, or the default TTL
ClockSteps == {1, 300}

\* the times a behaviour reaches: up to MaxSeconds single seconds and at most
\* one step of the default TTL
ClockInRange(t) == t % 300 <= MaxSeconds /\ t \div 300 <= 1

InitThreat ==
    /\ identities = {1, 2}
    /\ address = [pk \in identities |-> SeedAddress[pk]]
    /\ hits = <<>>
    /\ findings = <<>>
    /\ hibpKey = TRUE
    /\ shodanKey = TRUE
    /\ nreq = 0
    /\ last = NoRequest
    /\ cache = {}
    /\ clock = 0
    /\ conf \in ThreatConfs
    /\ inflight = {}

\* a request that calls get_points(source)
GetPoints ==
    /\ nreq < MaxCalls
    /\ \E source \in PointSources :
           \E r \in {get_points(conf, cache, clock, source)} :
               /\ cache' = r.cache
               /\ last' = r.rec
    /\ nreq' = nreq + 1
    /\ UNCHANGED <<identities, address, inflight, hits, findings, hibpKey, shodanKey, clock, conf>>

\* time passes
Tick ==
    /\ \E dt \in ClockSteps :
           /\ ClockInRange(clock + dt)
           /\ clock' = clock + dt
    /\ UNCHANGED <<identities, address, inflight, hits, findings, hibpKey, shodanKey, nreq, last, cache, conf>>

\* settings.THREATMAP is replaced; get_points reads it anew at every call
Reconfigure ==
    /\ \E c \in ThreatConfs \ {conf} : conf' = c
    /\ UNCHANGED <<identities, address, inflight, hits, findings, hibpKey, shodanKey, nreq, last, cache, clock>>

NextThreat == GetPoints \/ Tick \/ Reconfigure

SpecThreat == InitThreat /\ [][NextThreat]_vars

----------------------------------------------------------------------------
(* The threat map with the Cloudflare provider answering *)

\* rows of a Radar answer: a lower-case code, codes with a centroid, a code
\* without one, a row of the target endpoints, a row without value
RowUs == [originCountryAlpha2 |-> <<"u", "s">>, value |-> 25]

RowCn == [originCountryAlpha2 |-> <<"C", "N">>, value |-> 22]

RowBr == [originCountryAlpha2 |-> <<"B", "R">>]

RowXx == [originCountryAlpha2 |-> <<"X", "X">>, value |-> 5]

RowDeTarget == [targetCountryAlpha2 |-> <<"D", "E">>, value |-> 7]

RadarAnswer(status, body) == [status |-> status, body |-> body]

RadarJson(result) == [kind |-> "json", result |-> result]

\* the answers of the Radar API (status 0: no answer, the transport fails)
RadarAnswers ==
    {RadarAnswer(200, RadarJson(r)) :
        r \in {[top_locations |-> <<RowUs, RowCn, RowXx, RowDeTarget, RowBr>>],
               [rows |-> <<RowDeTarget, RowUs>>],
               [top_locations |-> <<RowXx>>],
               [top_locations |-> <<>>]}}
        \cup {RadarAnswer(200, [kind |-> "invalid"]),
              RadarAnswer(403, [kind |-> "invalid"]),
              RadarAnswer(0, [kind |-> "invalid"])}

\* the values POINT_LIMIT is configured with: small, as shipped, too small,
\* over the cap, not a number
PointLimits == {<<1>>, <<2>>, <<4>>, <<20>>, <<0>>, <<500>>, <<>>}

PointConfs ==
    {[PROVIDER |-> CLOUDFLARE, CACHE_SECONDS |-> <<300>>, POINT_LIMIT |-> l] :
        l \in PointLimits}

InitPoints ==
    /\ identities = {1, 2}
    /\ address = [pk \in identities |-> SeedAddress[pk]]
    /\ hits = <<>>
    /\ findings = <<>>
    /\ hibpKey = TRUE
    /\ shodanKey = TRUE
    /\ nreq = 0
    /\ last = NoRequest
    /\ cache = {}
    /\ clock = 0
    /\ conf \in PointConfs
    /\ inflight = {}

\* a request that calls get_points(source); asked: the token and the answer
\* of the upstream, when the provider was called
GetPointsLive ==
    /\ nreq < MaxCalls
    /\ \E source \in PointSources, token \in BOOLEAN, answer \in RadarAnswers :
           \E r \in {get_points_with(conf, cache, clock, source,
                         cloudflare_fetch_points(token, answer,
                             safe_limit(conf_get(conf, "POINT_LIMIT")), source))} :
               /\ cache' = r.cache
               /\ last' = r.rec @@ [asked |-> IF r.rec.fetched = 1
                                              THEN <<[token |-> token, answer |-> answer]>>
                                              ELSE <<>>]
    /\ nreq' = nreq + 1
    /\ UNCHANGED <<identities, address, inflight, hits, findings, hibpKey, shodanKey, clock, conf>>

NextPoints == GetPointsLive

SpecPoints == InitPoints /\ [][NextPoints]_vars

----------------------------------------------------------------------------
(* get_points under concurrent requests: cache.get, provider.fetch_points    *)
(* and cache.set are three steps, and other requests run in between.         *)

\* the locals of a get_points call
\*   stage   "missed": cache.get returned None and the provider is registered
\*           "fetched": the provider has answered;  "done": the call returned
PointsCall(req, source, provider_key, ttl, limit, key, hit, stage, points) ==
    [req      |-> req,
     view     |-> "get_points",
     source   |-> source,
     provider |-> provider_key,
     ttl      |-> ttl,
     limit    |-> limit,
     key      |-> key,
     hit      |-> hit,
     stage    |-> stage,
     fetched  |-> 0,
     stored   |-> FALSE,
     points   |-> points]

\* get_points from its call to the answer of cache.get
points_lookup(req, cfg, store, now, source) ==
    LET provider_key == conf_get(cfg, "PROVIDER")
        ttl          == safe_ttl(conf_get(cfg, "CACHE_SECONDS"))
        limit        == safe_limit(conf_get(cfg, "POINT_LIMIT"))
        key          == cache_key(provider_key, source, limit)
        cached       == cache_get(store, key, now)
        afterGet     == cache_after_get(store, key, now)
    IN  IF ~Truthy(provider_key)
        THEN [cache |-> store,
              call  |-> PointsCall(req, source, provider_key, 0, 0, <<>>, FALSE, "done", <<>>)]
        ELSE IF cached # <<>>
        THEN [cache |-> afterGet,
              call  |-> PointsCall(req, source, provider_key, ttl, limit, key, TRUE, "done",
                                   cached[1])]
        ELSE IF provider_key \notin PROVIDERS
        THEN [cache |-> afterGet,
              call  |-> PointsCall(req, source, provider_key, ttl, limit, key, FALSE, "done",
                                   <<>>)]
        ELSE [cache |-> afterGet,
              call  |-> PointsCall(req, source, provider_key, ttl, limit, key, FALSE, "missed",
                                   <<>>)]

\* points = provider.fetch_points(limit=limit, source=source)
points_fetch(call, token, answer) ==
    [call EXCEPT !.stage   = "fetched",
                 !.fetched = call.fetched + 1,
                 !.points  = cloudflare_fetch_points(token, answer, call.limit, call.source)]

\* Variant of the last step that returns the points without cache.set.
points_store_Never(call, store, now) ==
    [cache |-> store,
     call  |-> [call EXCEPT !.stage = "done"]]

\* if ttl > 0: cache.set(cache_key, points, ttl); return points
points_store(call, store, now) ==
    [cache |-> IF call.ttl > 0 THEN cache_set(store, call.key, call.points, call.ttl, now)
               ELSE store,
     call  |-> [call EXCEPT !.stage = "done", !.stored = call.ttl > 0]]

\* the record of a call that returned
PointsReturned(call) ==
    GetPointsRecord(call.source, call.provider, call.ttl, call.limit, call.key, call.hit,
                    FALSE, call.fetched, call.stored, call.points)
        @@ [req |-> call.req]

\* the settings of the racing calls: as shipped, or a short TTL
RaceConfs == {ConfShipped, ConfShort}

InitThreatRace ==
    /\ identities = {1, 2}
    /\ address = [pk \in identities |-> SeedAddress[pk]]
    /\ hits = <<>>
    /\ findings = <<>>
    /\ hibpKey = TRUE
    /\ shodanKey = TRUE
    /\ nreq = 0
    /\ last = NoRequest
    /\ cache = {}
    /\ clock = 0
    /\ conf \in RaceConfs
    /\ inflight = {}

\* a request calls get_points(source) and gets the answer of cache.get
BeginGetPoints ==
    /\ nreq < MaxScans
    /\ \E source \in PointSources :
           \E r \in {points_lookup(nreq + 1, conf, cache, clock, source)} :
               /\ cache' = r.cache
               /\ inflight' = inflight \cup {r.call}
               /\ last' = IF r.call.stage = "done" THEN PointsReturned(r.call) ELSE last
    /\ nreq' = nreq + 1
    /\ UNCHANGED <<identities, address, hits, findings, hibpKey, shodanKey, clock, conf>>

\* the provider answers a call that missed
ProviderAnswers ==
    /\ \E call \in inflight, token \in BOOLEAN, answer \in RadarAnswers :
           /\ call.stage = "missed"
           /\ inflight' = (inflight \ {call}) \cup {points_fetch(call, token, answer)}
    /\ UNCHANGED <<identities, address, hits, findings, hibpKey, shodanKey, nreq, last, threatVars>>

\* a call that has its points stores them and returns
StoreAndReturn ==
    /\ \E call \in inflight :
           /\ call.stage = "fetched"
           /\ \E r \in {points_store(call, cache, clock)} :
                  /\ cache' = r.cache
                  /\ inflight' = (inflight \ {call}) \cup {r.call}
                  /\ last' = PointsReturned(r.call)
    /\ UNCHANGED <<identities, address, hits, findings, hibpKey, shodanKey, nreq, clock, conf>>

\* time passes between the steps
TickBetween ==
    /\ \E dt \in ClockSteps :
           /\ ClockInRange(clock + dt)
           /\ clock' = clock + dt
    /\ UNCHANGED <<identities, address, inflight, hits, findings, hibpKey, shodanKey, nreq, last,
                   cache, conf>>

NextThreatRace == BeginGetPoints \/ ProviderAnswers \/ StoreAndReturn \/ TickBetween

SpecThreatRace == InitThreatRace /\ [][NextThreatRace]_vars

----------------------------------------------------------------------------
(* The identity list as a state machine *)

\* the values of the email form field: addresses, one padded, one in another
\* case, a blank one, an empty one, and None for a form without the field
EmailInputs == {ALICE_EXAMPLE, BOB_EXAMPLE, BOB_PADDED, BOB_UPPER, <<" ">>, <<>>, None}

InitIdentity ==
    /\ identities = {}
    /\ address = <<>>
    /\ hits = <<>>
    /\ findings = <<>>
    /\ hibpKey = TRUE
    /\ shodanKey = TRUE
    /\ nreq = 0
    /\ last = NoRequest
    /\ ThreatIdle
    /\ inflight = {}

AddIdentity ==
    /\ nreq < MaxAdds
    /\ \/ \E email \in EmailInputs : AddIdentityPost(email)
       \/ AddIdentityGet
    /\ nreq' = nreq + 1
    /\ UNCHANGED <<inflight, hits, findings, hibpKey, shodanKey, threatVars>>

NextIdentity == AddIdentity

SpecIdentity == InitIdentity /\ [][NextIdentity]_vars

----------------------------------------------------------------------------
(* Properties *)

\* the last request was a scan_identity that ran to its success message
ScanSucceeded(l) == l.view = "scan_identity" /\ l.outcome = "ok"

\* the step is a scan_identity request
IsScanIdentityStep == nreq' = nreq + 1 /\ last'.view = "scan_identity"

\* the step is a scan_target request
IsScanTargetStep == nreq' = nreq + 1 /\ last'.view = "scan_target"

\* C1: a scan of the same identity that gets the same upstream answer as the
\* scan before it leaves the stored rows as they were, creates nothing and
\* counts every record as updated.
C1_RescanIdempotent ==
    [][(/\ ScanSucceeded(last)
        /\ IsScanIdentityStep
        /\ ScanSucceeded(last')
        /\ last'.pk = last.pk
        /\ last'.resp = last.resp)
       => (/\ hits' = hits
           /\ last'.created = 0
           /\ last'.updated = Len(last'.results))]_vars

\* C2: no two stored BreachHit rows have the same (identity, breach_name).
C2_UniqueKeys ==
    \A i, j \in 1..Len(hits) :
        (hits[i].identity = hits[j].identity /\ hits[i].breach_name = hits[j].breach_name)
            => i = j

\* a re-scan has updated rows in a table that holds suffixed names too
C2_Witness ==
    /\ ScanSucceeded(last)
    /\ last.updated >= 1
    /\ last.created >= 1
    /\ Len(hits) >= 3

\* the names written before record k of the running batch
AssignedBefore(trace, k) == {trace[j].name : j \in 1..(k - 1)}

\* name is taken for record k: assigned earlier in the batch, or stored for
\* the identity when the scan began
Taken(table, pk, trace, k, name) ==
    name \in AssignedBefore(trace, k) \/ HitExists(table, pk, name)

\* C3: a suffixed record is written under "base (n)" with n the smallest
\* integer >= 2 whose candidate is neither assigned earlier in the batch nor
\* stored for the identity; two records named "Adobe" scanned for an identity
\* without rows give "Adobe" and "Adobe (2)", created = 2, updated = 0.
C3_SmallestFreeSuffix ==
    [][IsScanIdentityStep =>
        /\ \A k \in 1..Len(last'.trace) :
             LET e == last'.trace[k]
             IN  e.name # e.base =>
                   \E n \in 2..(Len(hits) + k + 1) :
                       /\ e.name = Candidate(e.base, n)
                       /\ ~Taken(hits, last'.pk, last'.trace, k, e.name)
                       /\ \A m \in 2..(n - 1) :
                              Taken(hits, last'.pk, last'.trace, k, Candidate(e.base, m))
        /\ (/\ ScanSucceeded(last')
            /\ ~\E i \in 1..Len(hits) : hits[i].identity = last'.pk
            /\ Len(last'.results) = 2
            /\ \A k \in 1..2 : last'.results[k].breach_name = ADOBE)
           => (/\ Len(last'.trace) = 2
               /\ last'.trace[1].name = ADOBE
               /\ last'.trace[2].name = ADOBE \o <<" ", "(", "2", ")">>
               /\ last'.created = 2
               /\ last'.updated = 0
               /\ HitExists(hits', last'.pk, ADOBE)
               /\ HitExists(hits', last'.pk, ADOBE \o <<" ", "(", "2", ")">>))]_vars

\* a record was written under "Adobe (3)": "Adobe (2)" was already stored
C3_Witness ==
    /\ ScanSucceeded(last)
    /\ \E k \in 1..Len(last.trace) :
           /\ last.trace[k].base = ADOBE
           /\ last.trace[k].name = ADOBE \o <<" ", "(", "3", ")">>

\* name is base with a suffix " (n)", n >= 2
IsSuffixed(name, base) ==
    \E n \in 2..(Len(hits) + 2) : name = Candidate(base, n)

\* C4 as stated: a record whose resolved name is already assigned in the
\* batch or already stored for the identity is written under a suffixed name.
C4_SuffixOnAnyCollision ==
    ScanSucceeded(last) =>
        \A k \in 1..Len(last.trace) :
            (last.trace[k].inBatch \/ last.trace[k].inStore)
                => IsSuffixed(last.trace[k].name, last.trace[k].base)

\* C4 amended: a record is written under a suffixed name whenever its
\* resolved name is already assigned earlier in the same batch; a resolved
\* name that collides only with a stored row is written under the resolved
\* name itself, which updates that row.
C4_SuffixOnBatchCollision ==
    ScanSucceeded(last) =>
        \A k \in 1..Len(last.trace) :
            LET e == last.trace[k]
            IN  /\ e.inBatch => IsSuffixed(e.name, e.base)
                /\ (e.inStore /\ ~e.inBatch) => (e.name = e.base /\ ~e.created)

\* one scan met both kinds of collision
C4_Witness ==
    /\ ScanSucceeded(last)
    /\ \E k \in 1..Len(last.trace) : last.trace[k].inStore /\ ~last.trace[k].inBatch
    /\ \E k \in 1..Len(last.trace) : last.trace[k].inBatch

\* v is absent or blank
Blank(v) == ~Truthy(v) \/ Strip(v) = <<>>

\* the last scan asked the upstream, got a JSON list with status 200 and ran
\* to its success message
Ingested(l) ==
    /\ ScanSucceeded(l)
    /\ l.requests = 1
    /\ l.resp.status = 200
    /\ StartsWith(Lower(l.resp.ct), APPLICATION_JSON)
    /\ l.resp.body.kind = "list"

\* the upstream records of the last answer that have a non-blank Name, Title
\* or Domain
WithIdentifier(items) ==
    SelectSeq(items, LAMBDA x :
        IsDict(x) /\ (~Blank(Get(x, "Name")) \/ ~Blank(Get(x, "Title"))
                         \/ ~Blank(Get(x, "Domain"))))

\* the upstream records of the last answer that have a non-blank Name
WithName(items) ==
    SelectSeq(items, LAMBDA x : IsDict(x) /\ ~Blank(Get(x, "Name")))

\* C5 as stated: after a successful scan every upstream record with a
\* non-blank Name, Title or Domain has a row written for it.
C5_IdentifiedNeverDropped ==
    Ingested(last) => Len(last.trace) = Len(WithIdentifier(last.resp.body.items))

\* C5 amended: after a successful scan every upstream record with a non-blank
\* Name has its own stored row, written under that Name or a suffix of it; a
\* record whose Name is absent or blank is dropped, whatever its Title and
\* Domain.
C5_NamedNeverDropped ==
    Ingested(last) =>
        LET named == WithName(last.resp.body.items)
        IN  /\ Len(last.trace) = Len(named)
            /\ \A k \in 1..Len(last.trace) :
                   /\ last.trace[k].base = Strip(named[k].Name)
                   /\ HitExists(hits, last.pk, last.trace[k].name)
                   /\ \A j \in 1..Len(last.trace) :
                          last.trace[j].name = last.trace[k].name => j = k

\* a successful scan of a list holding a named record and a record with a
\* Title but no Name
C5_Witness ==
    /\ Ingested(last)
    /\ Len(last.trace) >= 1
    /\ Len(WithIdentifier(last.resp.body.items)) > Len(WithName(last.resp.body.items))

\* the item has no name, title or domain and no occurrence or added date
AllBlank(item) ==
    /\ \A k \in {"breach_name", "Name", "title", "Title", "domain", "Domain"} :
           Blank(Get(item, k))
    /\ \A k \in {"occurred_on", "BreachDate", "added_on", "AddedDate"} :
           Blank(Get(item, k))

LastPayload == WithIpStr(last.script[last.requests].data)

\* C7: after a saved scan exactly one ShodanFinding row has the scanned IP,
\* and its hostnames, ports, org, os, raw and last_seen are those of this
\* scan's snapshot, whatever an earlier scan of the IP stored.
C7_OneRowLatestSnapshot ==
    (last.view = "scan_target" /\ last.outcome = "saved") =>
        /\ Cardinality({i \in 1..Len(findings) : findings[i].ip = last.ip}) = 1
        /\ \A i \in 1..Len(findings) :
               findings[i].ip = last.ip =>
                   LET row == findings[i]
                       d   == LastPayload
                   IN  /\ row.hostnames =
                              IF "hostnames" \in DOMAIN d THEN d.hostnames ELSE <<>>
                       /\ Range(row.ports) =
                              IF "ports" \in DOMAIN d THEN Range(d.ports) ELSE {}
                       /\ \A a, b \in 1..Len(row.ports) : a < b => row.ports[a] < row.ports[b]
                       /\ row.org = IF "org" \in DOMAIN d THEN d.org ELSE <<>>
                       /\ row.os = IF "os" \in DOMAIN d THEN d.os ELSE <<>>
                       /\ row.raw = d
                       /\ row.last_seen =
                              IF "last_update" \in DOMAIN d THEN d.last_update
                              ELSE Now(nreq - 1)

\* the second scan of an IP replaced a row that had other hostnames
C7_Witness ==
    /\ last.view = "scan_target"
    /\ last.outcome = "saved"
    /\ last.old # <<>>
    /\ \E i \in 1..Len(findings) :
           findings[i].ip = last.ip /\ findings[i].hostnames # last.old[1].hostnames

\* C8: a 404 answer ends fetch_host with None and is its last request, and
\* the scan_target that got it leaves the ShodanFinding table as it was.
C8_NotFoundNoWrite ==
    [][(IsScanTargetStep /\ \E i \in 1..Len(last'.script) : last'.script[i].status = 404)
       => (/\ last'.script[last'.requests].status = 404
           /\ \A i \in 1..(last'.requests - 1) : last'.script[i].status # 404
           /\ last'.fetched = "none"
           /\ last'.outcome = "nodata"
           /\ findings' = findings)]_vars

\* a scan got a 404 while rows were stored
C8_Witness ==
    /\ last.view = "scan_target"
    /\ last.requests >= 1
    /\ last.script[last.requests].status = 404
    /\ Len(findings) >= 1

\* C9: a 429 answer makes the client raise HibpRateLimitError after its one
\* request, and scan_identity answers with a warning and leaves the BreachHit
\* table as it was.
C9_RateLimitNoWrite ==
    [][(IsScanIdentityStep /\ last'.resp.status = 429)
       => (/\ last'.outcome = "HibpRateLimitError"
           /\ last'.requests = 1
           /\ last'.level = "warning"
           /\ last'.created = 0
           /\ last'.updated = 0
           /\ hits' = hits)]_vars

\* a scan was rate limited while rows were stored
C9_Witness ==
    /\ last.view = "scan_identity"
    /\ last.resp.status = 429
    /\ Len(hits) >= 1

\* an HTTP success status
IsSuccessStatus(status) == 200 <= status /\ status < 300

\* C10: the outcome of breaches_for_account by the upstream's answer: 404 an
\* empty list, 401 the authentication error, 429 the rate-limit error, any
\* other non-success status an upstream error, success without JSON content
\* an empty list, and records only from a success status with JSON content.
C10_OutcomeByStatus ==
    (last.view = "scan_identity" /\ last.requests = 1 /\ last.resp.status # 0) =>
        LET st   == last.resp.status
            json == StartsWith(Lower(last.resp.ct), APPLICATION_JSON)
            empty == last.outcome = "ok" /\ last.results = <<>>
        IN  /\ st = 404 => empty
            /\ st = 401 => last.outcome = "HibpAuthError"
            /\ st = 429 => last.outcome = "HibpRateLimitError"
            /\ (st \notin {404, 401, 429} /\ ~IsSuccessStatus(st))
                   => last.outcome = "HTTPError"
            /\ (IsSuccessStatus(st) /\ ~json) => empty
            /\ last.results # <<>> => (IsSuccessStatus(st) /\ json)

\* C11: without a configured key a scan_identity of a stored identity gets
\* the empty list from the client with no delay taken, no request sent and no
\* exception raised, and creates or changes no BreachHit row.
C11_DemoModeNoRequest ==
    [][(IsScanIdentityStep /\ ~hibpKey /\ last'.pk \in identities)
       => (/\ last'.requests = 0
           /\ ~last'.slept
           /\ last'.resp = NotAsked
           /\ last'.outcome = "ok"
           /\ last'.results = <<>>
           /\ last'.created = 0
           /\ last'.updated = 0
           /\ hits' = hits)]_vars

\* a scan ran without a key while rows of the scanned identity were stored
C11_Witness ==
    /\ ScanSucceeded(last)
    /\ ~hibpKey
    /\ last.requests = 0
    /\ HitExists(hits, last.pk, ADOBE)

\* every request of the call so far was answered 429
OnlyRateLimited(l) == \A i \in 1..Len(l.answers) : l.answers[i] = 429

\* C12: while every request is answered 429, fetch_host sleeps 2^attempt
\* before the next one (1, 2, 4, ...), retries times at most; the request
\* after the last of these sleeps is request number retries + 1, and its 429
\* ends the call with ShodanError.
C12_BackoffDoubles ==
    (last.view = "fetch_host" /\ OnlyRateLimited(last)) =>
        /\ last.requests = Len(last.answers)
        /\ last.requests <= last.retries + 1
        /\ Len(last.sleeps) = (IF last.requests <= last.retries THEN last.requests
                               ELSE last.retries)
        /\ \A i \in 1..Len(last.sleeps) : last.sleeps[i] = 2 ^ (i - 1)
        /\ last.attempt = Len(last.sleeps)
        /\ (last.requests <= last.retries => last.result = "running")
        /\ (last.requests = last.retries + 1 => last.result = "ShodanError")

\* a call with three retries got four 429s: it slept 1, 2 and 4 and failed
C12_Witness ==
    /\ last.view = "fetch_host"
    /\ last.retries = 3
    /\ last.answers = <<429, 429, 429, 429>>
    /\ last.sleeps = <<1, 2, 4>>
    /\ last.result = "ShodanError"

\* the call has returned or raised
FetchDone(l) == l.result # "running"

\* what holds of a call of fetch_host after any number of requests
FetchWithinBudget(l) ==
    /\ l.requests = Len(l.answers)
    /\ l.requests <= l.retries + 1
    /\ l.attempt = Len(l.sleeps)
    /\ l.attempt <= l.retries
    /\ \A i \in 1..Len(l.sleeps) :
           /\ l.answers[i] \in {0, 429}
           /\ l.sleeps[i] = (IF l.answers[i] = 0 THEN 1 ELSE 2 ^ (i - 1))
    /\ l.result \in {"running", "none", "data", "ShodanError"}
    /\ (l.requests = l.retries + 1 /\ l.answers[l.requests] \in {0, 429})
           => l.result = "ShodanError"
    /\ l.requests = l.retries + 1 => FetchDone(l)

\* C13: whatever mix of 429s and transport errors the upstream gives,
\* fetch_host sends at most retries + 1 requests and then has returned or
\* raised; every retry, after a transport error (delay 1) or a 429, uses one
\* attempt of the same budget, and an error on the last attempt raises
\* ShodanError.
C13_TerminatesWithinBudget ==
    /\ [](last.view = "fetch_host" => FetchWithinBudget(last))
    /\ <>FetchDone(last)

\* a call used its whole budget on a mix of transport errors and 429s
C13_Witness ==
    /\ last.view = "fetch_host"
    /\ last.retries >= 2
    /\ last.requests = last.retries + 1
    /\ last.result = "ShodanError"
    /\ \E i, j \in 1..last.retries : last.answers[i] = 0 /\ last.answers[j] = 429
    /\ last.answers[last.requests] = 0

\* the last request is a call of fetch_kev_items that has returned
KevReturned(l) == l.view = "fetch_kev_items" /\ l.done /\ l.raised = ""

\* what holds of a call of fetch_kev_items whatever the feeds answer: no
\* exception leaves it, it sends at most one request per CISA URL and one to
\* NVD, and then it has returned a list that is not empty
KevTotal(l) ==
    /\ l.raised = ""
    /\ Len(l.log) <= l.urls + 1
    /\ Len(l.log) = l.urls + 1 => l.done
    /\ l.done => l.items # <<>>

\* C14 as stated: fetch_kev_items never raises, returns a list that is not
\* empty and a source tag that is "primary", "secondary" or "fallback".
C14_TotalWithRoleTags ==
    last.view = "fetch_kev_items" =>
        /\ KevTotal(last)
        /\ last.done => last.tag \in {"primary", "secondary", "fallback"}

\* C14 amended: whichever of the CISA and NVD feeds are down, fetch_kev_items
\* never raises and returns a list that is not empty together with a source
\* tag that is "cisa_json" (items of a CISA URL), "nvd_hasKev" (items of the
\* NVD API) or "fallback" (the static item).
C14_TotalWithFeedTags ==
    last.view = "fetch_kev_items" =>
        /\ KevTotal(last)
        /\ last.done => last.tag \in {"cisa_json", "nvd_hasKev", "fallback"}
        /\ last.tag = "fallback" => last.items = <<static_item>>

\* every feed was down, each in another way, and the static item was served
C14_Witness ==
    /\ KevReturned(last)
    /\ last.urls = 2
    /\ last.tag = "fallback"
    /\ \A i \in 1..Len(last.log) : last.log[i].kind = "error"
    /\ last.sleeps = 2

\* the requests of the call that went to the NVD API
SecondaryRequests(l) == {i \in 1..Len(l.log) : l.log[i].source = "secondary"}

\* the feed of request i gave no item: it failed or its list was empty
GaveNothing(l, i) == l.log[i].kind \in {"empty", "error"}

\* C15: fetch_kev_items asks the CISA URLs in list order, asks the NVD API
\* only after every CISA URL failed or gave no item and at most once, returns
\* the static item with the tag "fallback" only after the NVD API failed or
\* gave no item too, and a CISA URL that gives items is the last request of
\* the call.
C15_FixedSourceOrder ==
    last.view = "fetch_kev_items" =>
        /\ \A i \in 1..Len(last.log) :
               IF i <= last.urls
               THEN last.log[i].source = "primary" /\ last.log[i].url = i
               ELSE last.log[i].source = "secondary"
        /\ Cardinality(SecondaryRequests(last)) <= 1
        /\ \A i \in SecondaryRequests(last) :
               /\ i = last.urls + 1
               /\ \A j \in 1..last.urls : GaveNothing(last, j)
        /\ last.tag = "fallback" =>
               /\ SecondaryRequests(last) = {Len(last.log)}
               /\ GaveNothing(last, Len(last.log))
        /\ \A i \in 1..Len(last.log) :
               (last.log[i].source = "primary" /\ last.log[i].kind = "items")
                   => (/\ i = Len(last.log)
                       /\ last.done
                       /\ last.tag = "cisa_json"
                       /\ SecondaryRequests(last) = {})
        /\ last.tag = "nvd_hasKev" =>
               /\ SecondaryRequests(last) = {Len(last.log)}
               /\ last.log[Len(last.log)].kind = "items"
        /\ (~last.done /\ last.next > last.urls) =>
               \A j \in 1..last.urls : GaveNothing(last, j)

\* a CISA URL gave an empty list, the next one failed, the NVD API gave an
\* empty list, and the static item was served
C15_Witness ==
    /\ KevReturned(last)
    /\ last.tag = "fallback"
    /\ Len(last.log) = 3
    /\ last.log[1].kind = "empty"
    /\ last.log[2].kind = "error"
    /\ last.log[3].kind = "empty"

\* the call that asked the provider for these points
AskedBy(points) == points[1]

\* C16: the points a get_points call takes from the cache were fetched by a
\* call with the same provider, the same source selector (no selector
\* counting as "default") and the same resolved limit; every cache entry is
\* stored under the key of the call that fetched it.
C16_NoCrossContamination ==
    /\ \A e \in cache :
           e.key = cache_key(AskedBy(e.value).provider, AskedBy(e.value).source,
                             AskedBy(e.value).limit)
    /\ (last.view = "get_points" /\ last.hit) =>
           /\ AskedBy(last.points).provider = last.provider
           /\ cache_source(AskedBy(last.points).source) = cache_source(last.source)
           /\ AskedBy(last.points).limit = last.limit

\* a call was served from the cache while the cache held live points of the
\* same provider and limit for another source selector
C16_Witness ==
    /\ last.view = "get_points"
    /\ last.hit
    /\ \E e \in cache :
           /\ e.expires > clock
           /\ cache_source(AskedBy(e.value).source) # cache_source(last.source)
           /\ AskedBy(e.value).provider = last.provider
           /\ AskedBy(e.value).limit = last.limit

\* the step is a get_points call
IsGetPointsStep == nreq' = nreq + 1 /\ last'.view = "get_points"

\* the TTL get_points resolves from the settings: CACHE_SECONDS when it is a
\* positive integer, else 300
ResolvedTtl(cfg) ==
    LET raw == conf_get(cfg, "CACHE_SECONDS")
    IN  IF raw # <<>> /\ raw[1] > 0 THEN raw[1] ELSE 300

\* C17: a get_points call for a registered provider that finds no live entry
\* under its key (none stored, or the stored one expired) calls the provider
\* once, stores the points under the key to expire the resolved TTL later and
\* returns them; a call that finds a live entry returns its value without
\* calling the provider and leaves the entry as it is.
C17_MissFetchesOnceAndStores ==
    [][(IsGetPointsStep /\ last'.provider \in PROVIDERS) =>
        LET key  == last'.key
            live == {e \in EntriesAt(cache, key) : e.expires > clock}
        IN  /\ key = cache_key(last'.provider, last'.source, last'.limit)
            /\ \A e \in cache' : e.key # key => e \in cache
            /\ IF live # {}
               THEN /\ last'.hit
                    /\ last'.fetched = 0
                    /\ ~last'.stored
                    /\ live = {[key |-> key, value |-> last'.points,
                                expires |-> (CHOOSE e \in live : TRUE).expires]}
                    /\ EntriesAt(cache', key) = live
               ELSE /\ ~last'.hit
                    /\ last'.fetched = 1
                    /\ last'.stored
                    /\ AskedBy(last'.points).at = clock
                    /\ EntriesAt(cache', key) =
                           {[key |-> key, value |-> last'.points,
                             expires |-> clock + ResolvedTtl(conf)]}]_vars

\* a call found the entry of an earlier call expired, asked the provider
\* again and stored the new points
C17_Witness ==
    /\ last.view = "get_points"
    /\ last.stale
    /\ last.fetched = 1
    /\ \E e \in cache : e.key = last.key /\ e.value = last.points /\ e.expires > clock

\* the date fields of a BreachHit row and of a normalized record
DateFields == {"occurred_on", "added_on", "modified_on"}

\* null, or ten characters: four digits, hyphen, two digits, hyphen, two digits
DateOrNull(v) == v = None \/ DATE_RE(v)

\* C18: every date in a record the client returns (_date_yyyy_mm_dd) and
\* every date in the occurred_on, added_on and modified_on fields of a
\* stored BreachHit row (_safe_date) is null or a string YYYY-MM-DD of ten
\* characters; the empty string is never among them.
C18_DatesNullOrIso ==
    /\ \A i \in 1..Len(hits) : \A k \in DateFields :
           DateOrNull(hits[i][k]) /\ hits[i][k] # <<>>
    /\ last.view \in {"scan_identity", "reconcile"} =>
           \A j \in 1..Len(last.results) : \A k \in DateFields :
               k \in DOMAIN last.results[j] =>
                   (DateOrNull(last.results[j][k]) /\ last.results[j][k] # <<>>)

\* a stored row whose three dates came from a month, a string without digits
\* and a timestamp: null, null and the timestamp's first ten characters
C18_Witness ==
    /\ ScanSucceeded(last)
    /\ \E i \in 1..Len(hits) :
           /\ hits[i].breach_name = LINKEDIN
           /\ hits[i].occurred_on = None
           /\ hits[i].added_on = None
           /\ hits[i].modified_on = <<"2", "0", "1", "3", "-", "1", "2", "-", "0", "4">>

\* the strict boolean a flag is to have: true exactly when the upstream
\* record carries the flag with a truthy value
ExpectedFlag(raw, f) ==
    IF RawFlagKey[f] \in DOMAIN raw /\ raw[RawFlagKey[f]] \in {"True", "1"}
    THEN "True" ELSE "False"

\* C19: after a scan that ingested the upstream list, each of the eight flags
\* of every normalized record and of the row stored for it is the strict
\* boolean of the upstream record's flag, false when the flag is absent or
\* null.
C19_FlagsAreTruthiness ==
    Ingested(last) =>
        LET named == WithName(last.resp.body.items)
        IN  \A k \in 1..Len(last.results) : \A f \in FlagNames :
                /\ last.results[k][f] \in {"True", "False"}
                /\ last.results[k][f] = ExpectedFlag(named[k], f)
                /\ \A i \in 1..Len(hits) :
                       (hits[i].identity = last.pk /\ hits[i].breach_name = last.trace[k].name)
                           => hits[i][f] = ExpectedFlag(named[k], f)

\* the step is an add_identity request
IsAddIdentityStep == nreq' = nreq + 1 /\ last'.view = "add_identity"

\* no two EmailIdentity rows have the same address
UniqueAddresses ==
    \A p, q \in identities : address[p] = address[q] => p = q

ResolvedLimit(cfg) ==
    LET raw == conf_get(cfg, "POINT_LIMIT")
    IN  IF raw = <<>> \/ raw[1] < 1 THEN 50
        ELSE IF raw[1] > 200 THEN 200
        ELSE raw[1]

\* C30: get_points returns at most as many points as the resolved limit,
\* whether they come from the cache, from live rows or from the provider's
\* fallback sample.
C30_AtMostLimitPoints ==
    [][IsGetPointsStep => Len(last'.points) <= ResolvedLimit(conf)]_vars

\* the get_points calls for one cache key
CallsFor(key) == {c \in inflight : c.view = "get_points" /\ c.key = key}

\* what holds of the calls and of the cache in every state of a race
RaceCallsAndCache ==
    /\ \A c \in inflight :
           /\ c.fetched <= 1
           /\ c.hit => c.fetched = 0
           /\ (c.stage = "done" /\ c.fetched = 1) => Len(c.points) >= 1
    /\ \A e \in cache :
           \E c \in CallsFor(e.key) :
               c.stage = "done" /\ c.fetched = 1 /\ c.points = e.value

\* what a step of a race does to the cache
RaceStep ==
    /\ \A e \in (cache \ cache') \cup (cache' \ cache) :
           \E c \in inflight' \ inflight : c.key = e.key
    /\ \A c \in inflight :
           (c.stage = "fetched" /\ c \notin inflight') =>
               EntriesAt(cache', c.key) =
                   {[key |-> c.key, value |-> c.points, expires |-> clock + c.ttl]}

\* C22: when get_points calls race, each call asks the provider at most once
\* and only if cache.get gave it nothing (two calls for one key on an empty
\* cache: at most two fetches), a call that asked returns a non-empty list of
\* points, a call that returns after fetching leaves its own points under
\* its key, every cache entry is the result of a fetch made for its key, and
\* a call changes no entry under another key.
C22_RaceAtMostRedundantFetch ==
    []RaceCallsAndCache /\ [][RaceStep]_vars

\* two calls for the same key both missed, both asked the provider, got
\* different points and returned; the cache holds an entry under their key
C22_Witness ==
    \E c1, c2 \in inflight :
        /\ c1.req # c2.req
        /\ c1.key = c2.key
        /\ c1.stage = "done" /\ c2.stage = "done"
        /\ c1.fetched = 1 /\ c2.fetched = 1
        /\ c1.points # c2.points
        /\ EntriesAt(cache, c1.key) # {}

\* C23: however the database steps of concurrent scan_identity runs
\* interleave, the stored BreachHit rows have pairwise different
\* (identity, breach_name) keys.
C23_UniqueKeysUnderRace ==
    Cardinality({<<hits[i].identity, hits[i].breach_name>> : i \in 1..Len(hits)}) = Len(hits)

\* a run's SELECT found no row for a suffixed name, another run stored that
\* key before the first one wrote, and the first one ended up updating it
C23_Witness ==
    /\ last.view = "scan_identity"
    /\ last.outcome = "ok"
    /\ \E k \in 1..Len(last.trace) :
           /\ last.trace[k].conflict
           /\ last.trace[k].name # last.trace[k].base
    /\ inflight = {}

\* the sources of a record's base name, in the order of their priority: the
\* stable breach name, the title, the domain, the synthetic name
NameSources(item) ==
    <<Strip(PyOr(PyOr(Get(item, "breach_name"), Get(item, "Name")), <<>>)),
      Strip(PyOr(PyOr(Get(item, "title"), Get(item, "Title")), <<>>)),
      Strip(PyOr(PyOr(Get(item, "domain"), Get(item, "Domain")), <<>>)),
      UNKNOWN_DASH
          \o PyOr(safe_date(PyOr(Get(item, "occurred_on"), Get(item, "BreachDate"))), NA)
          \o <<"-">>
          \o PyOr(safe_date(PyOr(Get(item, "added_on"), Get(item, "AddedDate"))), NA)>>

\* the first source that is not blank
FirstNonBlank(sources) ==
    sources[CHOOSE i \in 1..Len(sources) :
                /\ sources[i] # <<>>
                /\ \A j \in 1..(i - 1) : sources[j] = <<>>]

\* C24: the base name of a record is the first non-blank of its stable
\* breach name, its title, its domain and the synthetic name built from its
\* dates; and two records with the same four sources get the same base name,
\* whatever their keys and other fields.
C24_BaseNamePriority ==
    /\ [](last.view = "resolve"
             => last.r.name = FirstNonBlank(NameSources(last.item)))
    /\ [][(last.view = "resolve" /\ last'.view = "resolve"
              /\ NameSources(last'.item) = NameSources(last.item))
             => last'.r.name = last.r.name]_vars

\* a record without a name, with a title and a domain, named by its title
C24_Witness ==
    /\ last.view = "resolve"
    /\ NameSources(last.item)[1] = <<>>
    /\ NameSources(last.item)[2] # <<>>
    /\ NameSources(last.item)[3] # <<>>
    /\ last.r.name = NameSources(last.item)[2]

\* a record whose identifiers are all blank, named by the synthetic name
C24_WitnessSynthetic ==
    /\ last.view = "resolve"
    /\ \A i \in 1..3 : NameSources(last.item)[i] = <<>>
    /\ last.r.name = NameSources(last.item)[4]
    /\ "BreachDate" \in DOMAIN last.item

\* the number of BreachHit rows stored for an identity
RowsOf(table, identity) ==
    Cardinality({i \in 1..Len(table) : table[i].identity = identity})

\* C25: a scan_identity run that ends without error counts every record of
\* its batch once, as created or as updated; the identity's rows grow by the
\* created count, and every record counted as updated wrote to a row that was
\* stored before the run.
C25_CountsMatchBatch ==
    [][(IsScanIdentityStep /\ last'.outcome = "ok") =>
          /\ last'.created + last'.updated = Len(last'.results)
          /\ RowsOf(hits', last'.pk) = RowsOf(hits, last'.pk) + last'.created
          /\ \A k \in 1..Len(last'.trace) :
                 ~last'.trace[k].created
                     => HitExists(hits, last'.pk, last'.trace[k].name)]_vars

\* a run of two records of the same name on a store that held one of them:
\* one record updated, one created
C25_Witness ==
    /\ ScanSucceeded(last)
    /\ Len(last.results) = 2
    /\ last.created = 1
    /\ last.updated = 1
    /\ last.trace[1].base = last.trace[2].base
    /\ RowsOf(hits, last.pk) = 2

\* C26: a scan_identity run that ends in a failure branch leaves the stored
\* BreachHit rows as they were before the run.
C26_FailedScanWritesNothing ==
    [][(IsScanIdentityStep /\ last'.outcome # "ok") => hits' = hits]_vars

\* the failure branches that are taken before the loop do leave the rows alone
C26_ClientFailureWritesNothing ==
    [][(IsScanIdentityStep /\ last'.outcome # "ok" /\ last'.trace = <<>>
            /\ last'.results = <<>>) => hits' = hits]_vars

\* C27: for every retries argument, a call of fetch_host that returns None
\* received a 404 as its last answer; every other call that ended returned a
\* payload or raised ShodanError.
C27_NoneOnlyAfter404 ==
    /\ last.result = "none"
           => (last.answers # <<>> /\ last.answers[Len(last.answers)] = 404)
    /\ last.result \in {"running", "none", "data", "ShodanError"}

\* with a retries argument of zero or more the loop never ends by its
\* condition, and None is returned after a 404 only
C27_NoneOnlyAfter404_NonNegative ==
    (last.retries >= 0 /\ last.result = "none")
        => (last.answers # <<>> /\ last.answers[Len(last.answers)] = 404)

\* the rows of a table that belong to other identities than the given one,
\* in their stored order
RowsOfOthers(table, identity) ==
    LET Other(row) == row.identity # identity
    IN  SelectSeq(table, Other)

\* C28: a scan_identity request for an identity, whatever its batch and
\* outcome, leaves the BreachHit rows of every other identity, the
\* EmailIdentity rows and the ShodanFinding rows as they were.
C28_ScanTouchesOwnRowsOnly ==
    [][IsScanIdentityStep =>
          /\ RowsOfOthers(hits', last'.pk) = RowsOfOthers(hits, last'.pk)
          /\ identities' = identities
          /\ address' = address
          /\ findings' = findings]_vars

\* a scan that wrote rows for one identity under a breach name that another
\* identity has a row for
C28_Witness ==
    /\ ScanSucceeded(last)
    /\ last.created >= 1
    /\ \E i, j \in 1..Len(hits) :
           /\ hits[i].identity = last.pk
           /\ hits[j].identity # last.pk
           /\ hits[i].breach_name = hits[j].breach_name
           /\ hits[i].domain # hits[j].domain

\* the (identity, breach_name) keys of the stored BreachHit rows
StoredKeys(table) ==
    {<<table[i].identity, table[i].breach_name>> : i \in 1..Len(table)}

\* C29: every key stored before a scan_identity request is stored after it,
\* whatever the upstream reported and however the request ended; a request
\* after which a key is gone is a delete_identity request.
C29_ScanNeverDeletes ==
    [][/\ IsScanIdentityStep => StoredKeys(hits) \subseteq StoredKeys(hits')
       /\ ~(StoredKeys(hits) \subseteq StoredKeys(hits'))
              => (last'.view = "delete_identity" /\ last'.outcome = "ok")]_vars

\* a scan that stored a new record while the identity keeps a row for a
\* breach the upstream did not report in this scan
C29_Witness ==
    /\ ScanSucceeded(last)
    /\ last.created >= 1
    /\ \E i \in 1..Len(hits) :
           /\ hits[i].identity = last.pk
           /\ \A k \in 1..Len(last.trace) : last.trace[k].name # hits[i].breach_name

====
